---- MODULE Spec2Model ----
(***************************************************************************)
(* Verification model of the voice streaming delivery core:                *)
(*   audio/chunk_queue.py      AudioChunkQueue                             *)
(*   audio/chunk_tracker.py    ChunkTracker                                *)
(*   webrtc/tracks.py          TTSAudioTrack                               *)
(*   webrtc/manager.py         WebRTCManager                               *)
(*   server/voice_session_manager.py  VoiceSessionManager                  *)
(*   pipeline/streaming.py     StreamingVoicePipeline                      *)
(*   text/sentence_aggregator.py  SentenceAggregator                       *)
(*   main.py                   demo server                                 *)
(* All tasks run on one asyncio event loop: a step of the model is the     *)
(* code a task runs between two suspension points (await).                 *)
(***************************************************************************)
EXTENDS Integers, Sequences, FiniteSets, TLC

VARIABLES
    \* ---- AudioChunkQueue (chunk_queue.py) ----
    queue,               \* deque of chunk indices, oldest first
    space_available,     \* asyncio.Event value
    total_enqueued,      \* metrics.total_enqueued
    total_dequeued,      \* metrics.total_dequeued
    total_dropped,       \* metrics.total_dropped
    backpressure_events, \* metrics.backpressure_events
    putPc,               \* per put caller: "idle" | "wait"
    putChunk,            \* per put caller: chunk_index of the put in flight
    putWoken,            \* per put caller: its Event.wait() future is resolved
    putResult,           \* per put caller: result of its last finished put
    putSawFull,          \* per put caller: the put in flight found the queue full
    putDisturbed,        \* per put caller: a get/clear ran since the put began
    getResult,           \* result of the last get(): a chunk index or None
    getWasEmpty,         \* the queue was empty when the last get() ran
    nextChunk,           \* next chunk index handed to put
    issued,              \* chunk indices in the order put was called
    accepted,            \* chunk indices whose put returned True
    returned,            \* chunk indices in the order get returned them
    clearedIds,          \* chunk indices removed by clear
    clearedCount,        \* number of entries removed by clear
    putOverlap,          \* a put was called while another put was in flight
    queues,              \* AudioChunkQueueManager.queues: session ids that map to a queue
    \* ---- ChunkTracker (chunk_tracker.py) ----
    sent_chunks,         \* chunk_index -> ChunkInfo [acked, sent_time, ack_time]
    total_sent,          \* ChunkTracker.total_sent
    total_acked,         \* ChunkTracker.total_acked
    total_missing,       \* ChunkTracker.total_missing
    ack_latencies,       \* ChunkTracker.ack_latencies, oldest first
    max_ack_latency,     \* ChunkTracker.max_ack_latency
    now,                 \* time.time(), in units of 30 s
    trackerOp,           \* the last call made on the tracker
    ackSeen,             \* per chunk index: "unsent", "sent" (no
                         \* mark_acknowledged call since its last mark_sent)
                         \* or "acked" (such a call was made)
    sentAt,              \* per chunk index: time of its last mark_sent
    everAcked,           \* per chunk index: a mark_acknowledged returned True
    \* ---- TTSAudioTrack (tracks.py), the session's current track ----
    audio_queue,         \* asyncio.Queue of payloads and None sentinels
    buffer,              \* bytearray of PCM bytes not yet framed
    recvPc,              \* consumer: "idle" | "get" | "pace"
    frame_data,          \* frame extracted by recv() before its pacing sleep
    lastFrame,           \* frame returned by the last recv()
    prodPc,              \* per producer: "idle" | "backoff" (add_frame sleeping)
    prodData,            \* per producer: payload of the add_frame in flight
    prodGen,             \* per producer: track object the add_frame runs on
    trackGen,            \* identity of the session's current track object
    nextFrame,           \* next payload id handed to add_frame
    played,              \* payload ids seen in frames returned by recv()
    flushedBlocked,      \* flush() ran while this recv() was blocked on an empty queue
    lastRecvFlushed,     \* the recv() that returned last had been so flushed
    flushMark,           \* nextFrame at the last flush() of the track, 0: none
    \* ---- VoiceSessionManager (voice_session_manager.py), one session ----
    streaming_flag,      \* streaming_tasks.get(session_id, False)
    taskRegistered,      \* session_id in tts_streaming_tasks
    cancelRequested,     \* task.cancel() was called on the streaming task
    taskPc,              \* _stream_tts_to_webrtc: "off" | "run" | "cancelled"
    roPc,                \* read_output: "off" | "read" | "push" | "done"
    wiPc,                \* write_input: "off" | "run" | "done"
    roData,              \* payload read_output is pushing
    roGen,               \* track object the pending add_frame runs on
    pcmAvail,            \* PCM chunks FFmpeg has ready on stdout
    procReg,             \* session_id in ffmpeg_processes
    procAlive,           \* process.returncode is None
    intPc,               \* handle_interrupt: "idle" | "callback" | "wait_task" | "send"
    total_interruptions, \* session_data[session_id]["total_interruptions"]
    interruptsHandled,   \* handle_interrupt calls that have returned
    voice_interrupted,   \* voice_interrupted messages sent to the client
    latePushed,          \* payload ids pushed after the stop flag was set
    streamCount,         \* _stream_tts_to_webrtc calls so far
    \* ---- demo server (main.py), one session ----
    chunks,              \* len(audio_buffers[session_id]["chunks"])
    processing_task,     \* buffer["processing_task"]: "none" | "sleep" | "await" | "done"
    awaited,             \* process_audio task the processing task awaits
    active_tasks,        \* active_tasks[session_id]: a task id, None if absent
    tPc,                 \* per process_audio task: its await point
    tCancel,             \* per process_audio task: cancel() is pending on it
    tPend,               \* per task: sentences of the current token not yet sent
    tokensLeft,          \* per task: tokens the LLM stream may still yield
    nextTask,            \* id of the next process_audio task
    is_speaking,         \* sessions[session_id]["is_speaking"]
    agg_buffer,          \* sentence_aggregator.buffer
    events,              \* conversation events sent to the client, in order
    mainIntPc,           \* main.handle_interrupt: "idle" | "send"
    mainInterrupts,      \* main.handle_interrupt calls so far
    failures,            \* exceptions of the ASR, LLM and TTS providers so far
    main_webrtc,         \* session_id in webrtc_manager.tracks of the demo server
    \* ---- StreamingVoicePipeline (pipeline/streaming.py), one session ----
    plPc,                \* per process() call: its await point
    plLeft,              \* per process() call: sentences its reply still has
    pl_events,           \* callbacks invoked, in order, with the call they serve
    pl_active_tasks,     \* process() calls registered in _active_tasks
    pl_is_speaking,      \* _sessions[session_id]["is_speaking"]
    \* ---- SentenceAggregator (text/sentence_aggregator.py) under process_stream ----
    sa_config,           \* self.config: min_chars and max_wait_chars
    sa_buffer,           \* self.buffer
    sa_input,            \* tokens the token_stream was created with
    sa_tokens,           \* tokens the token_stream has not yielded yet
    sa_text,             \* concatenation of the tokens consumed so far
    sa_yielded,          \* sentences process_stream yielded, in order
    sa_cuts,             \* positions in sa_text where the buffer was cut
    sa_pc,               \* process_stream: "idle" | "feed" | "scan" | "done"
    \* ---- WebRTCManager (webrtc/manager.py), one session ----
    pcs,                 \* pcs.get(session_id): a connection id, None if absent
    track_ready_events,  \* track_ready_events.get(session_id): an event id
    tracks,              \* tracks.get(session_id): a track id
    senders,             \* senders.get(session_id): the connection the sender is of
    pcOpen,              \* connections created and not closed
    eventSet,            \* events that are set
    senderTrack,         \* per connection: the track its sender reads
    trackObj,            \* per track: audio_queue and byte buffer, as chunk ids
    added,               \* per track: chunks add_frame put on it
    received,            \* per track: chunks seen in frames its recv() returned
    nextPc,              \* id of the next RTCPeerConnection
    nextEvent,           \* id of the next asyncio.Event
    nextTrackId,         \* id of the next TTSAudioTrack
    nextAudio,           \* id of the next chunk handed to push_audio_chunk
    offPc,               \* per handle_offer caller: its await point
    offOwn,              \* per handle_offer caller: the connection it created
    clPc,                \* close_peer_connection caller: "idle" | "close_wait"
    clTarget,            \* connection that caller is closing
    closes,              \* close_peer_connection calls so far
    wtPc,                \* wait_for_track_ready caller: "idle" | "waiting" | "true" | "false"
    wtEvent,             \* event the caller waits on
    readyPushDropped,    \* the push right after a True was dropped for lack of a track
    readyUnnegotiated,   \* a True was returned with no negotiated, registered track
    pushPc,              \* push_audio_chunk caller: "idle" | "backpressure"
    pushTrack,           \* track the pending add_frame runs on
    pushData,            \* chunk the pending add_frame holds
    replaces,            \* replace_audio_track calls so far
    wOp,                 \* the manager call that completed last
    \* ---- VoiceSessionManager registries, several sessions ----
    active_connections,  \* keys of active_connections
    user_sessions,       \* user_sessions.get(user_id): a session id, None if absent
    session_data,        \* per session id: present, user_id, webrtc_enabled
    streaming_tasks,     \* keys of streaming_tasks
    tts_chunk_counts,    \* keys of tts_chunk_counts
    ffmpeg_processes,    \* keys of ffmpeg_processes
    rtc_pcs,             \* keys of pcs, tracks, senders of the WebRTC manager
    ice_candidates,      \* per session id: candidates added to its connection
    next_session,        \* the session id the next connect() generates
    connPc,              \* per connect(): "none" | "send" | "returned" | "raised"
    attempts,            \* per connect(): send_message calls made so far
    connected_sent,      \* per connect(): connected messages the socket accepted
    discPc,              \* per disconnect(): "idle" | "close_wait" | "done"
    strPc,               \* per session id: _stream_tts_to_webrtc "idle" | "running" | "done"
    msgCount,            \* process_message calls so far
    lastMalformed,       \* the last process_message call was given a malformed message
    msgPhase,            \* per session id: "none", "malformed" once its socket
                         \* delivered a malformed message, "handled" once a
                         \* later message reached its handler
    \* ---- AudioConverter.mp3_to_pcm_stream (audio/converter.py), one call ----
    convPc,              \* the generator: "idle" | "read" | "yielded" |
                         \* "await_input" | "await_exit" | "finished"
    process,             \* the FFmpeg process: "none" | "running" | "exited"
    input_task,          \* feed_input: "none" | "running" | "done" | "cancelled"
    input_cancel,        \* input_task.cancel() is pending
    stdin_closed,        \* process.stdin was closed
    mp3_left,            \* chunks mp3_stream still yields
    pcm_out,             \* PCM chunks waiting in the stdout pipe
    finish,              \* why the generator left its loop
    killed,              \* process.kill() was called
    \* ---- locks of the queue manager and of one queue, statement by statement ----
    lk_running,          \* the task the event loop is running, 0 between tasks
    lk_pc,               \* per task: the statement it is at, "idle" outside a call
    lk_wait,             \* per task: what it is suspended on: "none" | "lock" | "event"
    lk_woken,            \* per task: the future it is suspended on is resolved
    locks,               \* holder of AudioChunkQueueManager.lock (mgr) and of queue_lock (queue), 0 if free
    lock_waiters,        \* per lock: the tasks in its _waiters deque
    lk_len,              \* len(queue.queue)
    lk_event,            \* queue.space_available
    lk_mapped,           \* session_id in manager.queues
    lk_calls,            \* calls started so far
    \* ---- one SentenceAggregator used by the responses of several sessions ----
    sh_buffer,           \* the aggregator's buffer
    sh_tokens,           \* per session: tokens its LLM stream still yields
    sh_pc,               \* per session: process_stream "idle" | "feed" | "yielded" | "done"
    sh_out               \* per session: sentences handed to its TTS

qvars == <<queue, space_available, total_enqueued, total_dequeued,
           total_dropped, backpressure_events, putPc, putChunk, putWoken,
           putResult, putSawFull, putDisturbed, getResult, getWasEmpty,
           nextChunk, issued, accepted, returned, clearedIds, clearedCount,
           putOverlap, queues>>

kvars == <<sent_chunks, total_sent, total_acked, total_missing,
           ack_latencies, max_ack_latency, now, trackerOp, ackSeen, sentAt,
           everAcked>>

\* the fields of the ChunkTracker object
trackerState == <<sent_chunks, total_sent, total_acked, total_missing,
                  ack_latencies, max_ack_latency>>

tvars == <<audio_queue, buffer, recvPc, frame_data, lastFrame, prodPc,
           prodData, prodGen, trackGen, nextFrame, played, flushedBlocked,
           lastRecvFlushed, flushMark>>

ivars == <<streaming_flag, taskRegistered, cancelRequested, taskPc, roPc,
           wiPc, roData, roGen, pcmAvail, procReg, procAlive, intPc,
           total_interruptions, interruptsHandled, voice_interrupted,
           latePushed, streamCount>>

mvars == <<chunks, processing_task, awaited, active_tasks, tPc, tCancel,
           tPend, tokensLeft, nextTask, is_speaking, agg_buffer, events,
           mainIntPc, mainInterrupts, failures, main_webrtc>>

pvars == <<plPc, plLeft, pl_events, pl_active_tasks, pl_is_speaking>>

avars == <<sa_config, sa_buffer, sa_input, sa_tokens, sa_text, sa_yielded,
           sa_cuts, sa_pc>>

wvars == <<pcs, track_ready_events, tracks, senders, pcOpen, eventSet,
           senderTrack, trackObj, added, received, nextPc, nextEvent,
           nextTrackId, nextAudio, offPc, offOwn, clPc, clTarget, closes, wtPc,
           wtEvent,
           readyPushDropped, readyUnnegotiated, pushPc, pushTrack, pushData,
           replaces, wOp>>

\* the per-session registries of VoiceSessionManager and of its WebRTC manager
registries == <<active_connections, user_sessions, session_data,
                streaming_tasks, tts_chunk_counts, ffmpeg_processes, rtc_pcs,
                ice_candidates>>

rvars == <<registries, next_session, connPc, attempts, connected_sent,
           discPc, strPc, msgCount, lastMalformed, msgPhase>>

cvars == <<convPc, process, input_task, input_cancel, stdin_closed, mp3_left,
           pcm_out, finish, killed>>

lvars == <<lk_running, lk_pc, lk_wait, lk_woken, locks, lock_waiters, lk_len,
           lk_event, lk_mapped, lk_calls>>

gvars == <<sh_buffer, sh_tokens, sh_pc, sh_out>>

vars == <<qvars, kvars, tvars, ivars, mvars, pvars, avars, wvars, rvars, cvars, lvars,
          gvars>>

nonQueue == <<kvars, tvars, ivars, mvars, pvars, avars, wvars, rvars,
    cvars,
    lvars,
    gvars>>
nonTracker == <<qvars, tvars, ivars, mvars, pvars, avars, wvars, rvars,
    cvars,
    lvars,
    gvars>>
nonTrack == <<qvars, kvars, ivars, mvars, pvars, avars, wvars, rvars,
    cvars,
    lvars,
    gvars>>
\* what the session manager leaves alone: queue, tracker, stand-alone
\* producers, demo server, pipeline
nonSession == <<qvars, kvars, prodPc, prodData, prodGen, mvars, pvars,
                avars, wvars, rvars,
    cvars,
    lvars,
    gvars>>
\* what the demo server leaves alone
nonMain == <<qvars, kvars, ivars, pvars, prodPc, prodData, prodGen, avars,
             wvars, rvars,
    cvars,
    lvars,
    gvars>>
nonConverter == <<qvars, kvars, tvars, ivars, mvars, pvars, avars, wvars,
                 rvars,
    lvars,
    gvars>>
nonRegistry == <<qvars, kvars, tvars, ivars, mvars, pvars, avars, wvars,
    cvars,
    lvars,
    gvars>>
nonPipeline == <<qvars, kvars, tvars, ivars, mvars, avars, wvars, rvars,
    cvars,
    lvars,
    gvars>>
nonAggregator == <<qvars, kvars, tvars, ivars, mvars, pvars, wvars, rvars,
    cvars,
    lvars,
    gvars>>
nonManager == <<qvars, kvars, tvars, ivars, mvars, pvars, avars, rvars,
    cvars,
    lvars,
    gvars>>

nonLocks == <<qvars, kvars, tvars, ivars, mvars, pvars, avars, wvars, rvars,
             cvars, gvars>>

nonShared == <<qvars, kvars, tvars, ivars, mvars, pvars, avars, wvars, rvars,
              cvars, lvars>>

None == 0
\* value of getResult before the first get()
NoCall == -1

(***************************************************************************)
(* Bounds                                                                  *)
(***************************************************************************)
\* capacity of the queue under test (constructor argument max_size)
max_size == 2
\* number of chunks handed to put
MaxChunks == 4
\* number of concurrent put callers
NumPutters == 2

Putters == 1..NumPutters
\* tasks that call the queue manager and the queue, calls they make in all,
\* and the capacity of their queue
NumLockTasks == 2
MaxLockCalls == 4
LkMaxSize == 1

LkTasks == 1..NumLockTasks
\* sessions that share an aggregator, and tokens of each session's reply
NumShSessions == 2
MaxShTokens == 2

ShSessions == 1..NumShSessions
\* the session whose queue is under test
QueueSession == "s1"
\* capacity of the tracker under test (constructor argument max_tracked_chunks)
max_tracked_chunks == 1
\* number of distinct chunk indices handed to the tracker
MaxIdx == 2
\* number of mark_sent calls
MaxSent == 3
\* last clock value
MaxTime == 3
\* age after which cleanup_old_chunks drops an acknowledged record:
\* 60 s = 2 time units
CleanupAge == 2
\* ack_timeout of the tracker under test (constructor argument), in time
\* units
ack_timeout == 1
\* latencies kept in ack_latencies (100 in the source, scaled down)
LatencyWindow == 1

ChunkIdx == 1..MaxIdx
\* backpressure threshold of the track (50 in the source, scaled down)
MAX_QUEUE_SIZE == 2
\* frame geometry (960 samples in the source, scaled down)
samples_per_frame == 1
bytes_per_sample == 2
bytes_per_frame == samples_per_frame * bytes_per_sample
\* number of payloads handed to add_frame
MaxFrames == 3
\* number of concurrent add_frame callers
NumProducers == 2
\* longest payload, in bytes
MaxPayload == 3

Producers == 1..NumProducers
\* number of interrupt events
MaxInterrupts == 2
\* number of _stream_tts_to_webrtc calls
MaxStreams == 2
\* PCM chunks FFmpeg holds ready at most
MaxPcm == 2
\* audio chunks the buffer holds at most
MaxBuf == 2
\* number of process_audio tasks
MaxTasks == 2
\* tokens an LLM stream yields at most
MaxTokens == 2
\* number of interrupt messages to the demo server
MaxMainInterrupts == 1
\* exceptions the providers raise at most
MaxFailures == 1
\* number of StreamingVoicePipeline.process calls
MaxRuns == 2
\* sentences a reply of the pipeline has at most
MaxSentences == 1
\* aggregator thresholds (15 and 200 in the source, scaled down)
min_chars == 2
max_wait_chars == 3
\* AggregatorConfig defaults
DefaultMinChars == 15
DefaultMaxWaitChars == 200
\* largest min_chars of the small configurations, and their max_wait_chars
MaxMinChars == 3
SmallMaxWaitChars == 6
\* cut points of a text split into tokens
MaxCuts == 2
\* concurrent handle_offer callers
NumOffers == 3
\* close_peer_connection and replace_audio_track calls
MaxCloses == 1
MaxReplaces == 1
\* chunks handed to push_audio_chunk
MaxAudio == 3
\* connect() calls and the users that make them
NumSessions == 2
NumUsers == 1
\* process_message calls
MaxMsgs == 3
\* connections made where only signalling is followed
MaxSignalSessions == 1
\* chunks of an MP3 stream and PCM chunks the stdout pipe holds
MaxMp3 == 2
MaxPipe == 2

TaskIds == 1..MaxTasks
Runs == 1..MaxRuns
Offers == 1..NumOffers
SessionIds == 1..NumSessions
Users == 1..NumUsers
\* every handle_offer call creates at most one connection, one track and
\* two events; every replace_audio_track call creates one track
PcIds == 1..NumOffers
EventIds == 1..(2 * NumOffers)
TrackIds == 1..(NumOffers + MaxReplaces)

RECURSIVE SeqToSet(_)
SeqToSet(s) == IF s = <<>> THEN {} ELSE {Head(s)} \cup SeqToSet(Tail(s))

(***************************************************************************)
(* AudioChunkQueue                                                         *)
(***************************************************************************)
\* deque.append without a maxlen: the deque grows
DequeAppendUnbounded(q, e) == Append(q, e)

\* collections.deque(maxlen=max_size).append: a full deque discards its
\* leftmost entry
DequeAppend(q, e) ==
    IF Len(q) >= max_size THEN Append(Tail(q), e) ELSE Append(q, e)

\* deque.pop(): takes the newest entry
DequePopRight(q) == <<q[Len(q)], SubSeq(q, 1, Len(q) - 1)>>

\* deque.popleft(): <<entry, rest>>
DequePopleft(q) == <<Head(q), Tail(q)>>

\* asyncio.Event.set(): resolves the future of every waiter
EventSet(woken) == [t \in Putters |-> woken[t] \/ putPc[t] = "wait"]

QueueInit ==
    /\ queue = <<>>
    /\ space_available = TRUE
    /\ total_enqueued = 0
    /\ total_dequeued = 0
    /\ total_dropped = 0
    /\ backpressure_events = 0
    /\ putPc = [t \in Putters |-> "idle"]
    /\ putChunk = [t \in Putters |-> None]
    /\ putWoken = [t \in Putters |-> FALSE]
    /\ putResult = [t \in Putters |-> "none"]
    /\ putSawFull = [t \in Putters |-> FALSE]
    /\ putDisturbed = [t \in Putters |-> FALSE]
    /\ getResult = NoCall
    /\ getWasEmpty = FALSE
    /\ nextChunk = 1
    /\ issued = <<>>
    /\ accepted = {}
    /\ returned = <<>>
    /\ clearedIds = {}
    /\ clearedCount = 0
    /\ putOverlap = FALSE
    /\ queues = {QueueSession}

\* second locked section of put: append and count
PutAppend(t, c) ==
    /\ queue' = DequeAppend(queue, c)
    /\ total_enqueued' = total_enqueued + 1
    /\ putResult' = [putResult EXCEPT ![t] = "true"]
    /\ accepted' = accepted \cup {c}
    /\ putPc' = [putPc EXCEPT ![t] = "idle"]
    /\ putWoken' = [putWoken EXCEPT ![t] = FALSE]

\* put(), up to the wait for space: the first locked section, then
\* wait_for(space_available.wait()).  With the event set the wait either
\* returns at once or suspends for one loop iteration with its future
\* already resolved (depends on the asyncio version).
Put(t) ==
    /\ putPc[t] = "idle"
    /\ nextChunk <= MaxChunks
    /\ LET c == nextChunk
           full == Len(queue) >= max_size
           ev == IF full THEN FALSE ELSE space_available
       IN /\ nextChunk' = nextChunk + 1
          /\ issued' = Append(issued, c)
          /\ putChunk' = [putChunk EXCEPT ![t] = c]
          /\ putOverlap' = (putOverlap \/ \E u \in Putters : putPc[u] = "wait")
          /\ space_available' = ev
          /\ backpressure_events' =
                 IF full THEN backpressure_events + 1 ELSE backpressure_events
          /\ putSawFull' = [putSawFull EXCEPT ![t] = full]
          /\ putDisturbed' = [putDisturbed EXCEPT ![t] = FALSE]
          /\ \/ /\ ev
                /\ PutAppend(t, c)
             \/ /\ putPc' = [putPc EXCEPT ![t] = "wait"]
                /\ putWoken' = [putWoken EXCEPT ![t] = ev]
                /\ UNCHANGED <<queue, total_enqueued, putResult, accepted>>
    /\ UNCHANGED <<total_dequeued, total_dropped, getResult, getWasEmpty,
                   returned, clearedIds, clearedCount>>
    /\ UNCHANGED <<queues, nonQueue>>

\* put(), after the wait returned: enqueue
PutResume(t) ==
    /\ putPc[t] = "wait"
    /\ putWoken[t]
    /\ PutAppend(t, putChunk[t])
    /\ UNCHANGED <<space_available, total_dequeued, total_dropped,
                   backpressure_events, putChunk, putSawFull, putDisturbed,
                   getResult, getWasEmpty, nextChunk, issued, returned,
                   clearedIds, clearedCount, putOverlap>>
    /\ UNCHANGED <<queues, nonQueue>>

\* a timeout path that falls through to the enqueue
PutTimeoutEnqueues(t) ==
    /\ putPc[t] = "wait"
    /\ ~putWoken[t]
    /\ total_dropped' = total_dropped + 1
    /\ PutAppend(t, putChunk[t])
    /\ UNCHANGED <<space_available, total_dequeued,
                   backpressure_events, putChunk, putSawFull,
                   putDisturbed, getResult, getWasEmpty, nextChunk, issued,
                   returned, clearedIds, clearedCount, putOverlap>>
    /\ UNCHANGED <<queues, nonQueue>>

\* put(), the wait timed out: drop the chunk
PutTimeout(t) ==
    /\ putPc[t] = "wait"
    /\ ~putWoken[t]
    /\ total_dropped' = total_dropped + 1
    /\ putResult' = [putResult EXCEPT ![t] = "false"]
    /\ putPc' = [putPc EXCEPT ![t] = "idle"]
    /\ UNCHANGED <<queue, space_available, total_enqueued, total_dequeued,
                   backpressure_events, putChunk, putWoken, putSawFull,
                   putDisturbed, getResult, getWasEmpty, nextChunk, issued,
                   accepted, returned, clearedIds, clearedCount, putOverlap>>
    /\ UNCHANGED <<queues, nonQueue>>

\* a get() that takes an entry and leaves the event as it is
GetNoSignal ==
    /\ getWasEmpty' = (queue = <<>>)
    /\ IF queue = <<>>
       THEN /\ getResult' = None
            /\ UNCHANGED <<queue, total_dequeued, returned, putDisturbed>>
       ELSE LET p == DequePopleft(queue)
            IN /\ getResult' = p[1]
               /\ queue' = p[2]
               /\ returned' = Append(returned, p[1])
               /\ total_dequeued' = total_dequeued + 1
               /\ putDisturbed' = [t \in Putters |-> TRUE]
    /\ UNCHANGED <<space_available, putWoken>>
    /\ UNCHANGED <<total_enqueued, total_dropped, backpressure_events, putPc,
                   putChunk, putResult, putSawFull, nextChunk, issued,
                   accepted, clearedIds, clearedCount, putOverlap>>
    /\ UNCHANGED <<queues, nonQueue>>

\* get()
Get ==
    /\ getWasEmpty' = (queue = <<>>)
    /\ IF queue = <<>>
       THEN /\ getResult' = None
            /\ UNCHANGED <<queue, total_dequeued, space_available, putWoken,
                           returned, putDisturbed>>
       ELSE LET p == DequePopleft(queue)
            IN /\ getResult' = p[1]
               /\ queue' = p[2]
               /\ returned' = Append(returned, p[1])
               /\ total_dequeued' = total_dequeued + 1
               /\ IF Len(p[2]) < max_size
                  THEN /\ space_available' = TRUE
                       /\ putWoken' = EventSet(putWoken)
                  ELSE UNCHANGED <<space_available, putWoken>>
               /\ putDisturbed' = [t \in Putters |-> TRUE]
    /\ UNCHANGED <<total_enqueued, total_dropped, backpressure_events, putPc,
                   putChunk, putResult, putSawFull, nextChunk, issued,
                   accepted, clearedIds, clearedCount, putOverlap>>
    /\ UNCHANGED <<queues, nonQueue>>

\* clear()
Clear ==
    /\ clearedIds' = clearedIds \cup SeqToSet(queue)
    /\ clearedCount' = clearedCount + Len(queue)
    /\ total_dropped' = total_dropped + Len(queue)
    /\ queue' = <<>>
    /\ space_available' = TRUE
    /\ putWoken' = EventSet(putWoken)
    /\ putDisturbed' = [t \in Putters |-> TRUE]
    /\ UNCHANGED <<total_enqueued, total_dequeued, backpressure_events, putPc,
                   putChunk, putResult, putSawFull, getResult, getWasEmpty,
                   nextChunk, issued, accepted, returned, putOverlap>>
    /\ UNCHANGED <<queues, nonQueue>>

\* remove_queue() that only forgets the queue
RemoveQueueNoClear(s) ==
    /\ s \in queues
    /\ queues' = queues \ {s}
    /\ UNCHANGED <<queue, space_available, total_dropped, putWoken,
                   putDisturbed, clearedIds, clearedCount>>
    /\ UNCHANGED <<total_enqueued, total_dequeued, backpressure_events, putPc,
                   putChunk, putResult, putSawFull, getResult, getWasEmpty,
                   nextChunk, issued, accepted, returned, putOverlap>>
    /\ UNCHANGED nonQueue

\* remove_queue(session_id): under the manager lock, clear() the session's
\* queue and delete it from queues; nothing happens for an unknown session.
\* Callers that hold the queue object go on using it.
RemoveQueue(s) ==
    /\ s \in queues
    /\ clearedIds' = clearedIds \cup SeqToSet(queue)
    /\ clearedCount' = clearedCount + Len(queue)
    /\ total_dropped' = total_dropped + Len(queue)
    /\ queue' = <<>>
    /\ space_available' = TRUE
    /\ putWoken' = EventSet(putWoken)
    /\ putDisturbed' = [t \in Putters |-> TRUE]
    /\ queues' = queues \ {s}
    /\ UNCHANGED <<total_enqueued, total_dequeued, backpressure_events, putPc,
                   putChunk, putResult, putSawFull, getResult, getWasEmpty,
                   nextChunk, issued, accepted, returned, putOverlap>>
    /\ UNCHANGED nonQueue


QueueNext ==
    \/ \E t \in Putters : Put(t)
    \/ \E t \in Putters : PutResume(t)
    \/ \E t \in Putters : PutTimeout(t)
    \/ Get
    \/ Clear
    \/ RemoveQueue(QueueSession)


(***************************************************************************)
(* ChunkTracker                                                            *)
(* A ChunkInfo is [acked, sent_time, ack_time]; size_bytes is stored and   *)
(* never read back by the tracker.  Time is counted in units of 30 s.      *)
(***************************************************************************)
NoTime == -1

TrackerInit ==
    /\ sent_chunks = << >>
    /\ total_sent = 0
    /\ total_acked = 0
    /\ total_missing = 0
    /\ ack_latencies = <<>>
    /\ max_ack_latency = 0
    /\ now = 0
    /\ trackerOp = <<"none", 0>>
    /\ ackSeen = [i \in ChunkIdx |-> "unsent"]
    /\ sentAt = [i \in ChunkIdx |-> NoTime]
    /\ everAcked = [i \in ChunkIdx |-> FALSE]

Tracked == DOMAIN sent_chunks

Unacked == {i \in Tracked : ~sent_chunks[i].acked}

\* min(idx for idx, info in sent_chunks.items() if not info.acked)
OldestUnacked == CHOOSE i \in Unacked : \A j \in Unacked : i <= j

\* del sent_chunks[idx] for every idx in gone
Without(recs, gone) == [i \in (DOMAIN recs) \ gone |-> recs[i]]

\* sent_chunks[idx] = info
With(recs, idx, info) ==
    [i \in (DOMAIN recs) \cup {idx} |-> IF i = idx THEN info ELSE recs[i]]

\* mark_sent(chunk_index, chunk_size)
mark_sent(idx) ==
    /\ total_sent < MaxSent
    /\ LET evict == Cardinality(Tracked) >= max_tracked_chunks /\ Unacked # {}
           kept == IF evict THEN Without(sent_chunks, {OldestUnacked})
                   ELSE sent_chunks
       IN /\ sent_chunks' =
                 With(kept, idx,
                      [acked |-> FALSE, sent_time |-> now, ack_time |-> NoTime])
          /\ total_missing' = IF evict THEN total_missing + 1 ELSE total_missing
    /\ total_sent' = total_sent + 1
    /\ trackerOp' = <<"mark_sent", idx>>
    /\ ackSeen' = [ackSeen EXCEPT ![idx] = "sent"]
    /\ sentAt' = [sentAt EXCEPT ![idx] = now]
    /\ UNCHANGED <<total_acked, ack_latencies, max_ack_latency, now,
                   everAcked>>
    /\ UNCHANGED nonTracker

\* ack_latencies.append(latency), keeping the last LatencyWindow entries
AppendLatency(lats, latency) ==
    LET all == Append(lats, latency)
    IN IF Len(all) > LatencyWindow THEN Tail(all) ELSE all

MaxNum(a, b) == IF a >= b THEN a ELSE b

\* mark_acknowledged with the duplicate test left out
mark_acknowledgedNoDup(idx) ==
    /\ IF idx \in Tracked
       THEN /\ sent_chunks' = [sent_chunks EXCEPT ![idx].acked = TRUE,
                                                  ![idx].ack_time = now]
            /\ total_acked' = total_acked + 1
            /\ ack_latencies' =
                  AppendLatency(ack_latencies, now - sent_chunks[idx].sent_time)
            /\ max_ack_latency' =
                  MaxNum(max_ack_latency, now - sent_chunks[idx].sent_time)
       ELSE UNCHANGED <<sent_chunks, total_acked, ack_latencies,
                        max_ack_latency>>
    /\ trackerOp' = <<"mark_acknowledged", idx>>
    /\ ackSeen' = [ackSeen EXCEPT ![idx] = IF @ = "sent" THEN "acked" ELSE @]
    /\ everAcked' = [everAcked EXCEPT ![idx] = @ \/ idx \in Tracked]
    /\ UNCHANGED <<total_sent, total_missing, now, sentAt>>
    /\ UNCHANGED nonTracker

\* mark_acknowledged(chunk_index): unknown chunk -> False, duplicate -> True
mark_acknowledged(idx) ==
    /\ IF idx \in Tracked /\ ~sent_chunks[idx].acked
       THEN /\ sent_chunks' = [sent_chunks EXCEPT ![idx].acked = TRUE,
                                                  ![idx].ack_time = now]
            /\ total_acked' = total_acked + 1
            /\ ack_latencies' =
                  AppendLatency(ack_latencies, now - sent_chunks[idx].sent_time)
            /\ max_ack_latency' =
                  MaxNum(max_ack_latency, now - sent_chunks[idx].sent_time)
       ELSE UNCHANGED <<sent_chunks, total_acked, ack_latencies,
                        max_ack_latency>>
    /\ trackerOp' = <<"mark_acknowledged", idx>>
    /\ ackSeen' = [ackSeen EXCEPT ![idx] = IF @ = "sent" THEN "acked" ELSE @]
    /\ everAcked' = [everAcked EXCEPT ![idx] = @ \/ idx \in Tracked]
    /\ UNCHANGED <<total_sent, total_missing, now, sentAt>>
    /\ UNCHANGED nonTracker

\* cleanup_old_chunks(): drop records acknowledged more than 60 s ago
cleanup_old_chunks ==
    /\ LET cutoff_time == now - CleanupAge
           to_remove == {i \in Tracked : /\ sent_chunks[i].acked
                                         /\ sent_chunks[i].ack_time # NoTime
                                         /\ sent_chunks[i].ack_time < cutoff_time}
       IN sent_chunks' = Without(sent_chunks, to_remove)
    /\ trackerOp' = <<"cleanup_old_chunks", 0>>
    /\ UNCHANGED <<total_sent, total_acked, total_missing, ack_latencies,
                   max_ack_latency, now, ackSeen, sentAt, everAcked>>
    /\ UNCHANGED nonTracker

\* time passes
Tick ==
    /\ now < MaxTime
    /\ now' = now + 1
    /\ trackerOp' = <<"tick", 0>>
    /\ UNCHANGED <<trackerState, ackSeen, sentAt, everAcked>>
    /\ UNCHANGED nonTracker

\* get_missing_chunks with the test of the acked flag left out
get_missing_chunksAnyState ==
    {i \in Tracked : now - sent_chunks[i].sent_time > ack_timeout}

\* get_missing_chunks(): unacknowledged records older than ack_timeout
get_missing_chunks ==
    {i \in Tracked : /\ ~sent_chunks[i].acked
                     /\ now - sent_chunks[i].sent_time > ack_timeout}

\* get_metrics().total_missing
metrics_total_missing == Cardinality(get_missing_chunks)

TrackerNext ==
    \/ \E idx \in ChunkIdx : mark_sent(idx)
    \/ \E idx \in ChunkIdx : mark_acknowledged(idx)
    \/ cleanup_old_chunks
    \/ Tick

(***************************************************************************)
(* TTSAudioTrack                                                           *)
(* A byte is 0 (silence) or the id of the payload it came from.            *)
(***************************************************************************)
NoneItem == [none |-> TRUE, data |-> <<>>]

DataItem(d) == [none |-> FALSE, data |-> d]

\* b'\x00' * n
Zeros(n) == [i \in 1..n |-> 0]

\* a payload of n bytes
Payload(id, n) == [i \in 1..n |-> id]

SilenceFrame == Zeros(bytes_per_frame)

\* flush() that forgets the sentinel
FlushedQueueNoSentinel == <<>>

\* flush(): the queue is drained, then the None sentinel is put
FlushedQueue == <<NoneItem>>

\* _create_audio_frame: pad with zeros or truncate to bytes_per_frame
create_audio_frame(pcm) ==
    IF Len(pcm) < bytes_per_frame
    THEN pcm \o Zeros(bytes_per_frame - Len(pcm))
    ELSE SubSeq(pcm, 1, bytes_per_frame)

\* recv(): the loop body run until a frame is cut from the buffer or
\* audio_queue.get() finds the queue empty and suspends
RECURSIVE RecvRun(_, _)
RecvRun(buf, q) ==
    IF Len(buf) >= bytes_per_frame
    THEN [kind |-> "frame", frame |-> SubSeq(buf, 1, bytes_per_frame),
          buf |-> SubSeq(buf, bytes_per_frame + 1, Len(buf)), q |-> q]
    ELSE IF q = <<>>
    THEN [kind |-> "block", frame |-> <<>>, buf |-> buf, q |-> q]
    ELSE IF Head(q).none
    THEN IF Len(buf) > 0
         THEN RecvRun(buf \o Zeros(bytes_per_frame - Len(buf)), Tail(q))
         ELSE RecvRun(Zeros(bytes_per_frame), Tail(q))
    ELSE RecvRun(buf \o Head(q).data, Tail(q))

TrackInit ==
    /\ audio_queue = <<>>
    /\ buffer = <<>>
    /\ recvPc = "idle"
    /\ frame_data = <<>>
    /\ lastFrame = <<>>
    /\ prodPc = [p \in Producers |-> "idle"]
    /\ prodData = [p \in Producers |-> <<>>]
    /\ prodGen = [p \in Producers |-> 0]
    /\ trackGen = 0
    /\ nextFrame = 1
    /\ played = {}
    /\ flushedBlocked = FALSE
    /\ lastRecvFlushed = FALSE
    /\ flushMark = 0

\* recv() returns a frame
RecvReturn(fd) ==
    /\ lastFrame' = create_audio_frame(fd)
    /\ played' = played \cup (SeqToSet(create_audio_frame(fd)) \ {0})
    /\ recvPc' = "idle"
    /\ frame_data' = <<>>
    /\ lastRecvFlushed' = flushedBlocked
    /\ flushedBlocked' = FALSE

\* recv() runs from its current position to its next suspension point; a
\* cut frame is returned at once or after a pacing sleep
RecvAdvance ==
    LET r == RecvRun(buffer, audio_queue)
    IN /\ buffer' = r.buf
       /\ audio_queue' = r.q
       /\ IF r.kind = "block"
          THEN /\ recvPc' = "get"
               /\ UNCHANGED <<frame_data, lastFrame, played, flushedBlocked,
                              lastRecvFlushed>>
          ELSE \/ RecvReturn(r.frame)
               \/ /\ recvPc' = "pace"
                  /\ frame_data' = r.frame
                  /\ UNCHANGED <<lastFrame, played, flushedBlocked,
                                 lastRecvFlushed>>

\* the transport calls recv()
RecvCall ==
    /\ recvPc = "idle"
    /\ LET r == RecvRun(buffer, audio_queue)
       IN /\ buffer' = r.buf
          /\ audio_queue' = r.q
          /\ IF r.kind = "block"
             THEN /\ recvPc' = "get"
                  /\ lastRecvFlushed' = FALSE
                  /\ UNCHANGED <<frame_data, lastFrame, played, flushedBlocked>>
             ELSE \/ RecvReturn(r.frame)
                  \/ /\ recvPc' = "pace"
                     /\ frame_data' = r.frame
                     /\ lastRecvFlushed' = FALSE
                     /\ UNCHANGED <<lastFrame, played, flushedBlocked>>
    /\ UNCHANGED <<prodPc, prodData, prodGen, trackGen, nextFrame, flushMark>>
    /\ UNCHANGED nonTrack

\* recv() resumes from audio_queue.get() once the queue holds an item
RecvWake ==
    /\ recvPc = "get"
    /\ audio_queue # <<>>
    /\ RecvAdvance
    /\ UNCHANGED <<prodPc, prodData, prodGen, trackGen, nextFrame, flushMark>>
    /\ UNCHANGED nonTrack

\* recv() resumes from its pacing sleep and returns the frame
RecvPaceDone ==
    /\ recvPc = "pace"
    /\ RecvReturn(frame_data)
    /\ UNCHANGED <<audio_queue, buffer, prodPc, prodData, prodGen, trackGen,
                   nextFrame, flushMark>>
    /\ UNCHANGED nonTrack

\* add_frame(pcm_data): put at once, or sleep 10 ms while the queue is full
AddFrame(p) ==
    /\ prodPc[p] = "idle"
    /\ nextFrame <= MaxFrames
    /\ \E n \in 1..MaxPayload :
          LET d == Payload(nextFrame, n)
          IN IF Len(audio_queue) >= MAX_QUEUE_SIZE
             THEN /\ prodPc' = [prodPc EXCEPT ![p] = "backoff"]
                  /\ prodData' = [prodData EXCEPT ![p] = d]
                  /\ prodGen' = [prodGen EXCEPT ![p] = trackGen]
                  /\ UNCHANGED audio_queue
             ELSE /\ audio_queue' = Append(audio_queue, DataItem(d))
                  /\ UNCHANGED <<prodPc, prodData, prodGen>>
    /\ nextFrame' = nextFrame + 1
    /\ UNCHANGED <<buffer, recvPc, frame_data, lastFrame, trackGen, played,
                   flushedBlocked, lastRecvFlushed, flushMark>>
    /\ UNCHANGED nonTrack

\* add_frame that puts after one sleep, whatever the queue holds
AddFrameRetryNoCheck(p) ==
    /\ prodPc[p] = "backoff"
    /\ audio_queue' = Append(audio_queue, DataItem(prodData[p]))
    /\ prodPc' = [prodPc EXCEPT ![p] = "idle"]
    /\ prodData' = [prodData EXCEPT ![p] = <<>>]
    /\ UNCHANGED <<buffer, recvPc, frame_data, lastFrame, prodGen, trackGen,
                   nextFrame, played, flushedBlocked, lastRecvFlushed,
                   flushMark>>
    /\ UNCHANGED nonTrack

\* add_frame wakes from its 10 ms sleep and finds room
AddFrameRetry(p) ==
    /\ prodPc[p] = "backoff"
    /\ Len(audio_queue) < MAX_QUEUE_SIZE
    /\ audio_queue' = Append(audio_queue, DataItem(prodData[p]))
    /\ prodPc' = [prodPc EXCEPT ![p] = "idle"]
    /\ prodData' = [prodData EXCEPT ![p] = <<>>]
    /\ UNCHANGED <<buffer, recvPc, frame_data, lastFrame, prodGen, trackGen,
                   nextFrame, played, flushedBlocked, lastRecvFlushed,
                   flushMark>>
    /\ UNCHANGED nonTrack

\* flush()
Flush ==
    /\ buffer' = <<>>
    /\ audio_queue' = FlushedQueue
    /\ flushedBlocked' =
           (flushedBlocked \/ (recvPc = "get" /\ audio_queue = <<>>))
    /\ flushMark' = nextFrame
    /\ UNCHANGED <<recvPc, frame_data, lastFrame, prodPc, prodData, prodGen,
                   trackGen, nextFrame, played, lastRecvFlushed>>
    /\ UNCHANGED nonTrack

TrackNext ==
    \/ RecvCall
    \/ RecvWake
    \/ RecvPaceDone
    \/ \E p \in Producers : AddFrame(p)
    \/ \E p \in Producers : AddFrameRetry(p)
    \/ Flush

(***************************************************************************)
(* VoiceSessionManager: handle_interrupt against _stream_tts_to_webrtc,    *)
(* for one session whose WebRTC track is negotiated                        *)
(***************************************************************************)
SessionInit ==
    /\ streaming_flag = FALSE
    /\ taskRegistered = FALSE
    /\ cancelRequested = FALSE
    /\ taskPc = "off"
    /\ roPc = "off"
    /\ wiPc = "off"
    /\ roData = <<>>
    /\ roGen = 0
    /\ pcmAvail = 0
    /\ procReg = FALSE
    /\ procAlive = FALSE
    /\ intPc = "idle"
    /\ total_interruptions = 0
    /\ interruptsHandled = 0
    /\ voice_interrupted = 0
    /\ latePushed = {}
    /\ streamCount = 0

TaskDone == taskPc # "run"

\* read_output, top of its loop: break on the stop flag, else await read()
ROLoopTop(flag) == IF flag THEN "done" ELSE "read"

\* _stream_tts_to_webrtc starts: FFmpeg is spawned and registered, the
\* three coroutines are gathered; the caller may have registered the task
StreamStart ==
    /\ taskPc # "run"
    /\ streamCount < MaxStreams
    /\ streamCount' = streamCount + 1
    /\ taskPc' = "run"
    /\ \E reg \in BOOLEAN : taskRegistered' = reg
    /\ cancelRequested' = FALSE
    /\ procReg' = TRUE
    /\ procAlive' = TRUE
    /\ pcmAvail' = 0
    /\ wiPc' = "run"
    /\ roPc' = ROLoopTop(streaming_flag)
    /\ UNCHANGED <<streaming_flag, roData, roGen, intPc, total_interruptions,
                   interruptsHandled, voice_interrupted, latePushed>>
    /\ UNCHANGED <<tvars, nonSession>>

\* write_input feeds one TTS chunk; FFmpeg turns it into PCM
WIWrite ==
    /\ taskPc = "run"
    /\ wiPc = "run"
    /\ ~streaming_flag
    /\ procAlive
    /\ pcmAvail < MaxPcm
    /\ pcmAvail' = pcmAvail + 1
    /\ UNCHANGED <<streaming_flag, taskRegistered, cancelRequested, taskPc,
                   roPc, wiPc, roData, roGen, procReg, procAlive, intPc,
                   total_interruptions, interruptsHandled, voice_interrupted,
                   latePushed, streamCount>>
    /\ UNCHANGED <<tvars, nonSession>>

\* write_input ends: the TTS stream is exhausted, the stop flag was seen, or
\* the write failed; stdin is closed
WIEnd ==
    /\ taskPc = "run"
    /\ wiPc = "run"
    /\ wiPc' = "done"
    /\ UNCHANGED <<streaming_flag, taskRegistered, cancelRequested, taskPc,
                   roPc, roData, roGen, pcmAvail, procReg, procAlive, intPc,
                   total_interruptions, interruptsHandled, voice_interrupted,
                   latePushed, streamCount>>
    /\ UNCHANGED <<tvars, nonSession>>

\* read_output: process.stdout.read() returns.  A chunk is pushed with
\* push_audio_chunk -> add_frame on the session's current track; EOF ends
\* the loop
RORead ==
    /\ taskPc = "run"
    /\ roPc = "read"
    /\ ~cancelRequested
    /\ \/ /\ pcmAvail > 0
          /\ nextFrame <= MaxFrames
          /\ pcmAvail' = pcmAvail - 1
          /\ nextFrame' = nextFrame + 1
          /\ latePushed' = IF streaming_flag THEN latePushed \cup {nextFrame}
                           ELSE latePushed
          /\ \E n \in 1..bytes_per_frame :
                LET d == Payload(nextFrame, n)
                IN IF Len(audio_queue) >= MAX_QUEUE_SIZE
                   THEN /\ roPc' = "push"
                        /\ roData' = d
                        /\ roGen' = trackGen
                        /\ UNCHANGED audio_queue
                   ELSE /\ audio_queue' = Append(audio_queue, DataItem(d))
                        /\ roPc' = ROLoopTop(streaming_flag)
                        /\ UNCHANGED <<roData, roGen>>
       \/ /\ \/ wiPc = "done" /\ pcmAvail = 0
             \/ ~procAlive
          /\ roPc' = "done"
          /\ UNCHANGED <<pcmAvail, nextFrame, latePushed, audio_queue, roData,
                         roGen>>
    /\ UNCHANGED <<streaming_flag, taskRegistered, cancelRequested, taskPc,
                   wiPc, procReg, procAlive, intPc, total_interruptions,
                   interruptsHandled, voice_interrupted, streamCount>>
    /\ UNCHANGED <<buffer, recvPc, frame_data, lastFrame, trackGen, played,
                   flushedBlocked, lastRecvFlushed, flushMark>>
    /\ UNCHANGED nonSession

\* read_output: add_frame wakes from its 10 ms sleep and finds room on the
\* track object it was called on; a replaced track is no longer consumed
ROPushRetry ==
    /\ taskPc = "run"
    /\ roPc = "push"
    /\ ~cancelRequested
    /\ IF roGen = trackGen
       THEN /\ Len(audio_queue) < MAX_QUEUE_SIZE
            /\ audio_queue' = Append(audio_queue, DataItem(roData))
       ELSE UNCHANGED audio_queue
    /\ roPc' = ROLoopTop(streaming_flag)
    /\ roData' = <<>>
    /\ UNCHANGED <<streaming_flag, taskRegistered, cancelRequested, taskPc,
                   wiPc, roGen, pcmAvail, procReg, procAlive, intPc,
                   total_interruptions, interruptsHandled, voice_interrupted,
                   latePushed, streamCount>>
    /\ UNCHANGED <<buffer, recvPc, frame_data, lastFrame, trackGen, nextFrame,
                   played, flushedBlocked, lastRecvFlushed, flushMark>>
    /\ UNCHANGED nonSession

\* the cancelled task receives CancelledError at its await and ends; no
\* handler in _stream_tts_to_webrtc catches it, ffmpeg_processes keeps
\* its entry
StreamCancelled ==
    /\ taskPc = "run"
    /\ cancelRequested
    /\ taskPc' = "cancelled"
    /\ roPc' = "off"
    /\ wiPc' = "off"
    /\ roData' = <<>>
    /\ UNCHANGED <<streaming_flag, taskRegistered, cancelRequested, roGen,
                   pcmAvail, procReg, procAlive, intPc, total_interruptions,
                   interruptsHandled, voice_interrupted, latePushed,
                   streamCount>>
    /\ UNCHANGED <<tvars, nonSession>>

\* gather() returns: the process is terminated and unregistered
StreamEnd ==
    /\ taskPc = "run"
    /\ roPc = "done"
    /\ wiPc = "done"
    /\ ~cancelRequested
    /\ taskPc' = "off"
    /\ roPc' = "off"
    /\ wiPc' = "off"
    /\ procAlive' = FALSE
    /\ procReg' = FALSE
    /\ UNCHANGED <<streaming_flag, taskRegistered, cancelRequested, roData,
                   roGen, pcmAvail, intPc, total_interruptions,
                   interruptsHandled, voice_interrupted, latePushed,
                   streamCount>>
    /\ UNCHANGED <<tvars, nonSession>>

\* handle_interrupt is called: count it, then await on_interruption
IntStart ==
    /\ intPc = "idle"
    /\ total_interruptions < MaxInterrupts
    /\ total_interruptions' = total_interruptions + 1
    /\ intPc' = "callback"
    /\ UNCHANGED <<streaming_flag, taskRegistered, cancelRequested, taskPc,
                   roPc, wiPc, roData, roGen, pcmAvail, procReg, procAlive,
                   interruptsHandled, voice_interrupted, latePushed,
                   streamCount>>
    /\ UNCHANGED <<tvars, nonSession>>

\* handle_interrupt steps 1a (pop), 2 and 3: forget the task, terminate
\* FFmpeg, flush the track and replace it; then await send_message
IntFlushStage ==
    /\ taskRegistered' = FALSE
    /\ procAlive' = IF procReg THEN FALSE ELSE procAlive
    /\ buffer' = <<>>
    /\ audio_queue' = <<>>
    /\ trackGen' = trackGen + 1
    /\ recvPc' = "idle"
    /\ frame_data' = <<>>
    /\ flushedBlocked' = FALSE
    /\ intPc' = "send"

\* on_interruption returned: set the stop flag, cancel a registered running
\* task and await it, else go on to the flush
IntCallbackOk ==
    /\ intPc = "callback"
    /\ streaming_flag' = TRUE
    /\ IF taskRegistered /\ ~TaskDone
       THEN /\ cancelRequested' = TRUE
            /\ intPc' = "wait_task"
            /\ UNCHANGED <<taskRegistered, procAlive, buffer, audio_queue,
                           trackGen, recvPc, frame_data, flushedBlocked>>
       ELSE /\ IntFlushStage
            /\ UNCHANGED cancelRequested
    /\ UNCHANGED <<taskPc, roPc, wiPc, roData, roGen, pcmAvail, procReg,
                   total_interruptions, interruptsHandled, voice_interrupted,
                   latePushed, streamCount>>
    /\ UNCHANGED <<lastFrame, nextFrame, played, lastRecvFlushed, flushMark>>
    /\ UNCHANGED nonSession

\* on_interruption raised: the outer handler logs it and handle_interrupt
\* returns
IntCallbackRaise ==
    /\ intPc = "callback"
    /\ intPc' = "idle"
    /\ interruptsHandled' = interruptsHandled + 1
    /\ UNCHANGED <<streaming_flag, taskRegistered, cancelRequested, taskPc,
                   roPc, wiPc, roData, roGen, pcmAvail, procReg, procAlive,
                   total_interruptions, voice_interrupted, latePushed,
                   streamCount>>
    /\ UNCHANGED <<tvars, nonSession>>

\* wait_for(task, 0.5) is over: the cancelled task has ended
IntWaitDone ==
    /\ intPc = "wait_task"
    /\ TaskDone
    /\ IntFlushStage
    /\ UNCHANGED <<streaming_flag, cancelRequested, taskPc, roPc, wiPc,
                   roData, roGen, pcmAvail, procReg, total_interruptions,
                   interruptsHandled, voice_interrupted, latePushed,
                   streamCount>>
    /\ UNCHANGED <<lastFrame, nextFrame, played, lastRecvFlushed, flushMark>>
    /\ UNCHANGED nonSession

\* send_message(voice_interrupted) completes and handle_interrupt returns
IntSend ==
    /\ intPc = "send"
    /\ voice_interrupted' = voice_interrupted + 1
    /\ interruptsHandled' = interruptsHandled + 1
    /\ intPc' = "idle"
    /\ UNCHANGED <<streaming_flag, taskRegistered, cancelRequested, taskPc,
                   roPc, wiPc, roData, roGen, pcmAvail, procReg, procAlive,
                   total_interruptions, latePushed, streamCount>>
    /\ UNCHANGED <<tvars, nonSession>>

SessionNext ==
    \/ StreamStart
    \/ WIWrite
    \/ WIEnd
    \/ RORead
    \/ ROPushRetry
    \/ StreamCancelled
    \/ StreamEnd
    \/ IntStart
    \/ IntCallbackOk
    \/ IntCallbackRaise
    \/ IntWaitDone
    \/ IntSend
    \/ RecvCall
    \/ RecvWake
    \/ RecvPaceDone

(***************************************************************************)
(* SentenceAggregator                                                      *)
(* Text is a sequence of one-character strings.  Whitespace is " "; the    *)
(* non-ASCII members of sentence_endings and soft_breaks are left out.     *)
(***************************************************************************)
sentence_endings == {".", "!", "?"}
soft_breaks == {",", ";", ":"}

Digits == {"0", "1", "2", "3", "4", "5", "6", "7", "8", "9"}

\* characters that are not \w among those the model's texts use
NonWord == sentence_endings \cup soft_breaks \cup {" ", "/"}

UpperChars ==
    <<"A", "B", "C", "D", "E", "F", "G", "H", "I", "J", "K", "L", "M",
      "N", "O", "P", "Q", "R", "S", "T", "U", "V", "W", "X", "Y", "Z">>

LowerChars ==
    <<"a", "b", "c", "d", "e", "f", "g", "h", "i", "j", "k", "l", "m",
      "n", "o", "p", "q", "r", "s", "t", "u", "v", "w", "x", "y", "z">>

\* re.IGNORECASE: characters are compared in lower case
Lower(c) ==
    IF \E k \in 1..Len(UpperChars) : UpperChars[k] = c
    THEN LowerChars[CHOOSE k \in 1..Len(UpperChars) : UpperChars[k] = c]
    ELSE c

\* the alternatives of ABBREVIATIONS, in lower case
ABBREVIATIONS ==
    {<<"m", "r">>, <<"m", "r", "s">>, <<"m", "s">>, <<"d", "r">>,
     <<"p", "r", "o", "f">>, <<"s", "r">>, <<"j", "r">>, <<"v", "s">>,
     <<"e", "t", "c">>, <<"e", ".", "g">>, <<"i", ".", "e">>,
     <<"i", "n", "c">>, <<"l", "t", "d">>, <<"c", "o", "r", "p">>}

\* ABBREVIATIONS.search(text[:i]): \b, an alternative, a dot, the end
EndsWithAbbreviation(text, i) ==
    /\ text[i] = "."
    /\ \E w \in ABBREVIATIONS :
          LET n == Len(w)
          IN /\ i - n >= 1
             /\ \A k \in 1..n : Lower(text[i - n - 1 + k]) = w[k]
             /\ i - n = 1 \/ text[i - n - 1] \in NonWord

\* DECIMAL_NUMBER.search(text[:i]): a digit, a dot, the end
EndsWithDecimal(text, i) ==
    /\ text[i] = "."
    /\ i > 1
    /\ text[i - 1] \in Digits

\* https?://
UrlSchemes ==
    {<<"h", "t", "t", "p", ":", "/", "/">>,
     <<"h", "t", "t", "p", "s", ":", "/", "/">>}

\* URL_PATTERN.search(text[:i]): a scheme and no whitespace up to the end
EndsWithUrl(text, i) ==
    \E p \in 1..i : \E pre \in UrlSchemes :
        /\ p + Len(pre) <= i
        /\ SubSeq(text, p, p + Len(pre) - 1) = pre
        /\ \A k \in (p + Len(pre))..i : text[k] # " "

\* end of the regex match that starts at i: the character and the
\* whitespace after it
MatchEnd(text, i) ==
    CHOOSE j \in i..Len(text) :
        /\ \A k \in (i + 1)..j : text[k] = " "
        /\ j = Len(text) \/ text[j + 1] # " "

\* _is_false_ending for the match that starts at i; text[:match_end]
\* without its trailing whitespace is text[:i]
IsFalseEnding(text, i) ==
    \/ EndsWithAbbreviation(text, i)
    \/ EndsWithDecimal(text, i)
    \/ EndsWithUrl(text, i)

MinOf(S) == CHOOSE x \in S : \A y \in S : x <= y

\* _find_sentence_boundary: 0 stands for None
FindSentenceBoundary(text, cfg) ==
    LET hits == {i \in 1..Len(text) :
                    /\ text[i] \in sentence_endings
                    /\ ~IsFalseEnding(text, i)
                    /\ MatchEnd(text, i) >= cfg.min_chars}
    IN IF hits = {} THEN 0 ELSE MatchEnd(text, MinOf(hits))

\* _find_soft_boundary: 0 stands for None
FindSoftBoundary(text, cfg) ==
    LET hits == {i \in 1..Len(text) :
                    /\ text[i] \in soft_breaks
                    /\ MatchEnd(text, i) >= cfg.min_chars}
    IN IF hits = {} THEN 0 ELSE MatchEnd(text, MinOf(hits))

RECURSIVE LStrip(_)
LStrip(text) ==
    IF text # <<>> /\ Head(text) = " " THEN LStrip(Tail(text)) ELSE text

RECURSIVE RStrip(_)
RStrip(text) ==
    IF text # <<>> /\ text[Len(text)] = " "
    THEN RStrip(SubSeq(text, 1, Len(text) - 1))
    ELSE text

Strip(text) == LStrip(RStrip(text))

\* a pass of the loop that looks for sentence boundaries only
LoopCutSentenceOnly(text, cfg) == FindSentenceBoundary(text, cfg)

\* the loop of add_token and of process_stream over the buffer; gives the
\* sentences and the buffer that is left
\* one pass of the while loop: where the buffer is cut, 0 for the break
LoopCut(text, cfg) ==
    LET boundary == FindSentenceBoundary(text, cfg)
        soft == IF Len(text) > cfg.max_wait_chars
                THEN FindSoftBoundary(text, cfg)
                ELSE 0
    IN IF boundary > 0 THEN boundary ELSE soft

\* one pass of the loop and no more
AddTokenLoopOnce(text, sentences, cfg) ==
    LET cut == LoopCut(text, cfg)
        piece == Strip(SubSeq(text, 1, cut))
    IN IF cut > 0
       THEN [sentences |-> IF piece # <<>> THEN Append(sentences, piece)
                           ELSE sentences,
             buffer |-> SubSeq(text, cut + 1, Len(text))]
       ELSE [sentences |-> sentences, buffer |-> text]

RECURSIVE AddTokenLoop(_, _, _)
AddTokenLoop(text, sentences, cfg) ==
    LET cut == LoopCut(text, cfg)
        piece == Strip(SubSeq(text, 1, cut))
    IN IF cut > 0
       THEN AddTokenLoop(SubSeq(text, cut + 1, Len(text)),
                         IF piece # <<>> THEN Append(sentences, piece)
                         ELSE sentences,
                         cfg)
       ELSE [sentences |-> sentences, buffer |-> text]

\* an add_token that returns after its first sentence
add_tokenFirstOnly(text, token, cfg) ==
    AddTokenLoopOnce(text \o token, <<>>, cfg)

add_token(text, token, cfg) == AddTokenLoop(text \o token, <<>>, cfg)

\* flush(): the remaining text, <<>> for None
AggFlush(text) == Strip(text)

\* AggregatorConfig of the demo server, scaled to the token alphabet
MainConfig == [min_chars |-> min_chars, max_wait_chars |-> max_wait_chars]

\* tokens an LLM stream yields
Tokens == {<<"a", ".">>, <<"1", ".">>, <<",", " ">>, <<"a", ".", "a", ".">>}

(***************************************************************************)
(* process_stream of one SentenceAggregator over one token stream          *)
(***************************************************************************)
DefaultConfig ==
    [min_chars |-> DefaultMinChars, max_wait_chars |-> DefaultMaxWaitChars]

\* configurations the aggregator is constructed with
AggConfigs ==
    {DefaultConfig}
    \cup {[min_chars |-> m, max_wait_chars |-> SmallMaxWaitChars] :
             m \in 1..MaxMinChars}

\* texts a token stream spells: "Dr. Smith arrived.", "See e.g. this.",
\* "I think. Therefore I am.", "Yes, Mr. Fox, go."
AggTexts ==
    {<<"D", "r", ".", " ", "S", "m", "i", "t", "h", " ", "a", "r", "r", "i",
       "v", "e", "d", ".">>,
     <<"S", "e", "e", " ", "e", ".", "g", ".", " ", "t", "h", "i", "s", ".">>,
     <<"I", " ", "t", "h", "i", "n", "k", ".", " ", "T", "h", "e", "r", "e",
       "f", "o", "r", "e", " ", "I", " ", "a", "m", ".">>,
     <<"Y", "e", "s", ",", " ", "M", "r", ".", " ", "F", "o", "x", ",", " ",
       "g", "o", ".">>}

\* the token stream of the class docstring, with the spaces a tokenizer
\* puts in front of words
DocTokens ==
    <<<<"I">>, <<" ", "t", "h", "i", "n", "k">>, <<".">>,
      <<" ", "T", "h", "e", "r", "e", "f", "o", "r", "e">>, <<" ", "I">>,
      <<" ", "a", "m">>, <<".">>>>

\* text cut into tokens after the positions in cuts
RECURSIVE Tokenize(_, _)
Tokenize(text, cuts) ==
    IF cuts = {}
    THEN <<text>>
    ELSE LET c == MinOf(cuts)
         IN <<SubSeq(text, 1, c)>>
            \o Tokenize(SubSeq(text, c + 1, Len(text)),
                        {x - c : x \in cuts \ {c}})

CutSets(text) ==
    {cuts \in SUBSET (1..(Len(text) - 1)) : Cardinality(cuts) <= MaxCuts}

AggStreams ==
    {DocTokens}
    \cup UNION {{Tokenize(text, cuts) : cuts \in CutSets(text)} :
                   text \in AggTexts}

AggregatorInit ==
    /\ sa_config = DefaultConfig
    /\ sa_buffer = <<>>
    /\ sa_input = <<>>
    /\ sa_tokens = <<>>
    /\ sa_text = <<>>
    /\ sa_yielded = <<>>
    /\ sa_cuts = {}
    /\ sa_pc = "idle"

\* SentenceAggregator(config).process_stream(token_stream): reset()
AggStart ==
    /\ sa_pc = "idle"
    /\ \E cfg \in AggConfigs, stream \in AggStreams :
          /\ sa_config' = cfg
          /\ sa_input' = stream
          /\ sa_tokens' = stream
    /\ sa_buffer' = <<>>
    /\ sa_pc' = "feed"
    /\ UNCHANGED <<sa_text, sa_yielded, sa_cuts>>
    /\ UNCHANGED nonAggregator

\* the token stream yields a token: self.buffer += token
AggToken ==
    /\ sa_pc = "feed"
    /\ sa_tokens # <<>>
    /\ sa_buffer' = sa_buffer \o Head(sa_tokens)
    /\ sa_text' = sa_text \o Head(sa_tokens)
    /\ sa_tokens' = Tail(sa_tokens)
    /\ sa_pc' = "scan"
    /\ UNCHANGED <<sa_config, sa_input, sa_yielded, sa_cuts>>
    /\ UNCHANGED nonAggregator

\* a pass of the loop that finds a boundary: cut the buffer there and
\* yield the piece
AggYield ==
    /\ sa_pc = "scan"
    /\ LET cut == LoopCut(sa_buffer, sa_config)
           piece == Strip(SubSeq(sa_buffer, 1, cut))
       IN /\ cut > 0
          /\ sa_buffer' = SubSeq(sa_buffer, cut + 1, Len(sa_buffer))
          /\ sa_cuts' = sa_cuts \cup {Len(sa_text) - Len(sa_buffer) + cut}
          /\ sa_yielded' = IF piece # <<>> THEN Append(sa_yielded, piece)
                           ELSE sa_yielded
    /\ UNCHANGED <<sa_config, sa_input, sa_tokens, sa_text, sa_pc>>
    /\ UNCHANGED nonAggregator

\* a pass of the loop that finds no boundary: break, wait for more tokens
AggWait ==
    /\ sa_pc = "scan"
    /\ LoopCut(sa_buffer, sa_config) = 0
    /\ sa_pc' = "feed"
    /\ UNCHANGED <<sa_config, sa_buffer, sa_input, sa_tokens, sa_text,
                   sa_yielded, sa_cuts>>
    /\ UNCHANGED nonAggregator

\* an end of stream that only resets the buffer
AggStreamEndDropsRest ==
    /\ sa_pc = "feed"
    /\ sa_tokens = <<>>
    /\ sa_buffer' = <<>>
    /\ sa_pc' = "done"
    /\ UNCHANGED <<sa_config, sa_input, sa_tokens, sa_text, sa_yielded,
                   sa_cuts>>
    /\ UNCHANGED nonAggregator

\* the token stream is exhausted: yield what is left in the buffer
AggStreamEnd ==
    /\ sa_pc = "feed"
    /\ sa_tokens = <<>>
    /\ LET remaining == Strip(sa_buffer)
       IN sa_yielded' = IF remaining # <<>> THEN Append(sa_yielded, remaining)
                        ELSE sa_yielded
    /\ sa_buffer' = <<>>
    /\ sa_pc' = "done"
    /\ UNCHANGED <<sa_config, sa_input, sa_tokens, sa_text, sa_cuts>>
    /\ UNCHANGED nonAggregator

AggregatorNext ==
    \/ AggStart
    \/ AggToken
    \/ AggYield
    \/ AggWait
    \/ AggStreamEnd

(***************************************************************************)
(* Demo server (main.py): audio buffering, process_audio, stream_response  *)
(* handle_webrtc_offer and handle_interrupt for one session                *)
(***************************************************************************)
MainInit ==
    /\ chunks = 0
    /\ processing_task = "none"
    /\ awaited = None
    /\ active_tasks = None
    /\ tPc = [t \in TaskIds |-> "none"]
    /\ tCancel = [t \in TaskIds |-> FALSE]
    /\ tPend = [t \in TaskIds |-> 0]
    /\ tokensLeft = [t \in TaskIds |-> 0]
    /\ nextTask = 1
    /\ is_speaking = FALSE
    /\ agg_buffer = <<>>
    /\ events = <<>>
    /\ mainIntPc = "idle"
    /\ mainInterrupts = 0
    /\ failures = 0
    /\ main_webrtc = FALSE

\* the task has been created and has not returned or been cancelled
TaskActive(t) ==
    tPc[t] \in {"new", "asr", "stream", "llm", "tts", "ttsf", "resp",
                "complete"}

\* the task is inside the try block of stream_response
InResponse(t) == tPc[t] \in {"llm", "tts", "ttsf", "resp", "complete"}

\* task.cancel(): no effect on a task that is done
CancelTask(t) ==
    IF t # None /\ TaskActive(t) THEN [tCancel EXCEPT ![t] = TRUE]
    ELSE tCancel

\* _process_buffer_after_timeout resumes from "await task" when t ends
AwaiterAfter(t) ==
    IF processing_task = "await" /\ awaited = t THEN "done"
    ELSE processing_task

\* handle_audio_chunk: buffer the chunk, cancel the pending processing task
\* (a cancel of a task that awaits another task cancels that one), start a
\* new one
handle_audio_chunk ==
    /\ mainIntPc = "idle"
    /\ chunks < MaxBuf
    /\ chunks' = chunks + 1
    /\ tCancel' = IF processing_task = "await" THEN CancelTask(awaited)
                  ELSE tCancel
    /\ processing_task' = "sleep"
    /\ awaited' = None
    /\ UNCHANGED <<active_tasks, tPc, tPend, tokensLeft, nextTask,
                   is_speaking, agg_buffer, events, mainIntPc,
                   mainInterrupts,
                   failures>>
    /\ UNCHANGED <<tvars, nonMain, main_webrtc>>

\* _process_buffer_after_timeout: the sleep is over; the chunks are joined
\* and process_audio starts as a task registered in active_tasks
BufferTimeout ==
    /\ processing_task = "sleep"
    /\ nextTask <= MaxTasks
    /\ IF chunks = 0
       THEN /\ processing_task' = "done"
            /\ UNCHANGED <<chunks, awaited, active_tasks, tPc, tokensLeft,
                           nextTask>>
       ELSE /\ chunks' = 0
            /\ tPc' = [tPc EXCEPT ![nextTask] = "new"]
            /\ tokensLeft' = [tokensLeft EXCEPT ![nextTask] = MaxTokens]
            /\ active_tasks' = nextTask
            /\ processing_task' = "await"
            /\ awaited' = nextTask
            /\ nextTask' = nextTask + 1
    /\ UNCHANGED <<tCancel, tPend, is_speaking, agg_buffer, events,
                   mainIntPc, mainInterrupts,
                   failures>>
    /\ UNCHANGED <<tvars, nonMain, main_webrtc>>

\* process_audio step 1: validate_audio
TaskValidate(t) ==
    /\ tPc[t] = "new"
    /\ ~tCancel[t]
    /\ \E is_valid \in BOOLEAN :
          IF is_valid
          THEN /\ tPc' = [tPc EXCEPT ![t] = "asr"]
               /\ UNCHANGED processing_task
          ELSE /\ tPc' = [tPc EXCEPT ![t] = "rejected"]
               /\ processing_task' = AwaiterAfter(t)
    /\ UNCHANGED <<chunks, awaited, active_tasks, tCancel, tPend, tokensLeft,
                   nextTask, is_speaking, agg_buffer, events, mainIntPc,
                   mainInterrupts,
                   failures>>
    /\ UNCHANGED <<tvars, nonMain, main_webrtc>>

\* process_audio step 2: transcribe returns; an empty transcript is answered
\* with no_speech_detected, any other is sent as transcript
TaskTranscript(t) ==
    /\ tPc[t] = "asr"
    /\ ~tCancel[t]
    /\ \E empty \in BOOLEAN :
          IF empty
          THEN /\ events' = Append(events, "no_speech_detected")
               /\ tPc' = [tPc EXCEPT ![t] = "rejected"]
               /\ processing_task' = AwaiterAfter(t)
          ELSE /\ events' = Append(events, "transcript")
               /\ tPc' = [tPc EXCEPT ![t] = "stream"]
               /\ UNCHANGED processing_task
    /\ UNCHANGED <<chunks, awaited, active_tasks, tCancel, tPend, tokensLeft,
                   nextTask, is_speaking, agg_buffer, mainIntPc,
                   mainInterrupts,
                   failures>>
    /\ UNCHANGED <<tvars, nonMain, main_webrtc>>

\* stream_response starts: is_speaking is set, the aggregator is reset
TaskStreamStart(t) ==
    /\ tPc[t] = "stream"
    /\ ~tCancel[t]
    /\ is_speaking' = TRUE
    /\ agg_buffer' = <<>>
    /\ tPc' = [tPc EXCEPT ![t] = "llm"]
    /\ UNCHANGED <<chunks, processing_task, awaited, active_tasks, tCancel,
                   tPend, tokensLeft, nextTask, events, mainIntPc,
                   mainInterrupts,
                   failures>>
    /\ UNCHANGED <<tvars, nonMain, main_webrtc>>

\* stream_response after its token loop: flush the aggregator, send the
\* remainder as llm_sentence and speak it, else send agent_response
LlmFinish(t) ==
    LET remaining == AggFlush(agg_buffer)
    IN /\ agg_buffer' = <<>>
       /\ IF remaining # <<>> /\ is_speaking
          THEN /\ events' = Append(events, "llm_sentence")
               /\ tPc' = [tPc EXCEPT ![t] = "ttsf"]
          ELSE /\ events' = Append(events, "agent_response")
               /\ tPc' = [tPc EXCEPT ![t] = "resp"]
       /\ UNCHANGED tPend

\* the LLM stream yields a token: leave the loop when is_speaking was
\* cleared, else aggregate and send the first complete sentence
TaskToken(t) ==
    /\ tPc[t] = "llm"
    /\ ~tCancel[t]
    /\ tokensLeft[t] > 0
    /\ tokensLeft' = [tokensLeft EXCEPT ![t] = @ - 1]
    /\ \E token \in Tokens :
          IF ~is_speaking
          THEN LlmFinish(t)
          ELSE LET r == add_token(agg_buffer, token, MainConfig)
               IN /\ agg_buffer' = r.buffer
                  /\ IF r.sentences = <<>>
                     THEN UNCHANGED <<events, tPc, tPend>>
                     ELSE /\ events' = Append(events, "llm_sentence")
                          /\ tPend' = [tPend EXCEPT
                                          ![t] = Len(r.sentences) - 1]
                          /\ tPc' = [tPc EXCEPT ![t] = "tts"]
    /\ UNCHANGED <<chunks, processing_task, awaited, active_tasks, tCancel,
                   nextTask, is_speaking, mainIntPc, mainInterrupts,
                   failures>>
    /\ UNCHANGED <<tvars, nonMain, main_webrtc>>

\* the LLM stream is exhausted
TaskLlmEnd(t) ==
    /\ tPc[t] = "llm"
    /\ ~tCancel[t]
    /\ LlmFinish(t)
    /\ UNCHANGED <<chunks, processing_task, awaited, active_tasks, tCancel,
                   tokensLeft, nextTask, is_speaking, mainIntPc,
                   mainInterrupts,
                   failures>>
    /\ UNCHANGED <<tvars, nonMain, main_webrtc>>

\* stream_tts_to_webrtc with a track registered: a PCM chunk of the
\* sentence is pushed with push_audio_chunk -> add_frame, which waits while
\* the track queue is full
TaskTtsPush(t) ==
    /\ tPc[t] \in {"tts", "ttsf"}
    /\ ~tCancel[t]
    /\ main_webrtc
    /\ is_speaking
    /\ nextFrame <= MaxFrames
    /\ Len(audio_queue) < MAX_QUEUE_SIZE
    /\ audio_queue' = Append(audio_queue,
                             DataItem(Payload(nextFrame, bytes_per_frame)))
    /\ nextFrame' = nextFrame + 1
    /\ UNCHANGED mvars
    /\ UNCHANGED <<buffer, recvPc, frame_data, lastFrame, trackGen, played,
                   flushedBlocked, lastRecvFlushed, flushMark>>
    /\ UNCHANGED nonMain

\* asr_provider.transcribe raises: the handler of process_audio logs the
\* error and the task returns
TaskAsrRaise(t) ==
    /\ tPc[t] = "asr"
    /\ ~tCancel[t]
    /\ failures < MaxFailures
    /\ failures' = failures + 1
    /\ tPc' = [tPc EXCEPT ![t] = "failed"]
    /\ processing_task' = AwaiterAfter(t)
    /\ UNCHANGED <<chunks, awaited, active_tasks, tCancel, tPend, tokensLeft,
                   nextTask, is_speaking, agg_buffer, events, mainIntPc,
                   mainInterrupts>>
    /\ UNCHANGED <<tvars, nonMain, main_webrtc>>

\* llm_provider.stream raises: the handler of stream_response logs the
\* error, is_speaking is cleared and process_audio returns
TaskLlmRaise(t) ==
    /\ tPc[t] = "llm"
    /\ ~tCancel[t]
    /\ failures < MaxFailures
    /\ failures' = failures + 1
    /\ is_speaking' = FALSE
    /\ tPc' = [tPc EXCEPT ![t] = "failed"]
    /\ processing_task' = AwaiterAfter(t)
    /\ UNCHANGED <<chunks, awaited, active_tasks, tCancel, tPend, tokensLeft,
                   nextTask, agg_buffer, events, mainIntPc, mainInterrupts>>
    /\ UNCHANGED <<tvars, nonMain, main_webrtc>>

\* what follows the return of stream_tts_to_webrtc: the next sentence of
\* the token is sent, or the token loop goes on, or (after the flush)
\* agent_response is sent
AfterTts(t) ==
    IF tPc[t] = "ttsf"
    THEN /\ events' = Append(events, "agent_response")
         /\ tPc' = [tPc EXCEPT ![t] = "resp"]
         /\ UNCHANGED tPend
    ELSE IF tPend[t] > 0
    THEN /\ events' = Append(events, "llm_sentence")
         /\ tPend' = [tPend EXCEPT ![t] = @ - 1]
         /\ UNCHANGED tPc
    ELSE /\ tPc' = [tPc EXCEPT ![t] = "llm"]
         /\ UNCHANGED <<events, tPend>>

\* tts_provider.stream_audio or the converter raises: the handler of
\* stream_tts_to_webrtc logs the error and stream_response goes on
TaskTtsRaise(t) ==
    /\ tPc[t] \in {"tts", "ttsf"}
    /\ ~tCancel[t]
    /\ main_webrtc
    /\ failures < MaxFailures
    /\ failures' = failures + 1
    /\ AfterTts(t)
    /\ UNCHANGED <<chunks, processing_task, awaited, active_tasks, tCancel,
                   tokensLeft, nextTask, is_speaking, agg_buffer, mainIntPc,
                   mainInterrupts>>
    /\ UNCHANGED <<tvars, nonMain, main_webrtc>>

\* stream_tts_to_webrtc returns: at once with a warning in the log when the
\* session has no track, else when the audio of the sentence is pushed
TaskTtsEnd(t) ==
    /\ tPc[t] \in {"tts", "ttsf"}
    /\ ~tCancel[t]
    /\ AfterTts(t)
    /\ UNCHANGED <<chunks, processing_task, awaited, active_tasks, tCancel,
                   tokensLeft, nextTask, is_speaking, agg_buffer, mainIntPc,
                   mainInterrupts,
                   failures>>
    /\ UNCHANGED <<tvars, nonMain, main_webrtc>>

\* agent_response is out: send streaming_complete
TaskAgentSent(t) ==
    /\ tPc[t] = "resp"
    /\ ~tCancel[t]
    /\ events' = Append(events, "streaming_complete")
    /\ tPc' = [tPc EXCEPT ![t] = "complete"]
    /\ UNCHANGED <<chunks, processing_task, awaited, active_tasks, tCancel,
                   tPend, tokensLeft, nextTask, is_speaking, agg_buffer,
                   mainIntPc, mainInterrupts,
                   failures>>
    /\ UNCHANGED <<tvars, nonMain, main_webrtc>>

\* stream_response and process_audio return: is_speaking is cleared
TaskComplete(t) ==
    /\ tPc[t] = "complete"
    /\ ~tCancel[t]
    /\ is_speaking' = FALSE
    /\ tPc' = [tPc EXCEPT ![t] = "done"]
    /\ processing_task' = AwaiterAfter(t)
    /\ UNCHANGED <<chunks, awaited, active_tasks, tCancel, tPend, tokensLeft,
                   nextTask, agg_buffer, events, mainIntPc, mainInterrupts,
                   failures>>
    /\ UNCHANGED <<tvars, nonMain, main_webrtc>>

\* the cancelled task receives CancelledError at its await: stream_response
\* clears is_speaking on the way out, the awaiting processing task ends
TaskCancelled(t) ==
    /\ TaskActive(t)
    /\ tCancel[t]
    /\ is_speaking' = IF InResponse(t) THEN FALSE ELSE is_speaking
    /\ tPc' = [tPc EXCEPT ![t] = "cancelled"]
    /\ processing_task' = AwaiterAfter(t)
    /\ UNCHANGED <<chunks, awaited, active_tasks, tCancel, tPend, tokensLeft,
                   nextTask, agg_buffer, events, mainIntPc, mainInterrupts,
                   failures>>
    /\ UNCHANGED <<tvars, nonMain, main_webrtc>>

\* handle_webrtc_offer of the demo server: an offer without sdp returns at
\* once; handle_offer registers the track of the session when it returns an
\* answer, which is sent as webrtc_answer, and registers none when it fails.
\* The client sends its offers before its first utterance is processed.
MainWebrtcOffer ==
    /\ ~main_webrtc
    /\ mainIntPc = "idle"
    /\ nextTask = 1
    /\ \E sdp \in BOOLEAN, answer \in BOOLEAN :
          main_webrtc' = (sdp /\ answer)
    /\ UNCHANGED <<chunks, processing_task, awaited, active_tasks, tPc,
                   tCancel, tPend, tokensLeft, nextTask, is_speaking,
                   agg_buffer, events, mainIntPc, mainInterrupts, failures>>
    /\ UNCHANGED <<tvars, nonMain>>

\* main.handle_interrupt: clear is_speaking, cancel and forget the active
\* task, flush the track and replace it when the session has one; then await
\* send_message
MainInterrupt ==
    /\ mainIntPc = "idle"
    /\ mainInterrupts < MaxMainInterrupts
    /\ mainInterrupts' = mainInterrupts + 1
    /\ is_speaking' = FALSE
    /\ tCancel' = CancelTask(active_tasks)
    /\ active_tasks' = None
    /\ IF main_webrtc
       THEN /\ buffer' = <<>>
            /\ audio_queue' = <<>>
            /\ trackGen' = trackGen + 1
            /\ recvPc' = "idle"
            /\ frame_data' = <<>>
            /\ flushedBlocked' = FALSE
       ELSE UNCHANGED <<buffer, audio_queue, trackGen, recvPc, frame_data,
                        flushedBlocked>>
    /\ mainIntPc' = "send"
    /\ UNCHANGED <<chunks, processing_task, awaited, tPc, tPend, tokensLeft,
                   nextTask, agg_buffer, events, failures, main_webrtc>>
    /\ UNCHANGED <<lastFrame, nextFrame, played, lastRecvFlushed, flushMark>>
    /\ UNCHANGED nonMain

\* main.handle_interrupt: voice_interrupted is sent
MainInterruptSend ==
    /\ mainIntPc = "send"
    /\ events' = Append(events, "voice_interrupted")
    /\ mainIntPc' = "idle"
    /\ UNCHANGED <<chunks, processing_task, awaited, active_tasks, tPc,
                   tCancel, tPend, tokensLeft, nextTask, is_speaking,
                   agg_buffer, mainInterrupts,
                   failures>>
    /\ UNCHANGED <<tvars, nonMain, main_webrtc>>

(***************************************************************************)
(* StreamingVoicePipeline: process and interrupt for one session, with     *)
(* every callback set                                                      *)
(***************************************************************************)
PipelineInit ==
    /\ plPc = [k \in Runs |-> "none"]
    /\ plLeft = [k \in Runs |-> 0]
    /\ pl_active_tasks = {}
    /\ pl_is_speaking = FALSE
    /\ pl_events = <<>>

\* the call is between its first await and its return
PipelineRunning(k) ==
    plPc[k] \in {"asr", "on_transcript", "llm", "tts", "complete"}

\* the call is inside the try block of _stream_response
PipelineInStream(k) == plPc[k] \in {"llm", "tts", "complete"}

\* process() is called: validate, then await asr.transcribe.  Nothing looks
\* at a response already running and nothing is stored in _active_tasks
PipelineProcess(k) ==
    /\ plPc[k] = "none"
    /\ \A j \in Runs : j < k => plPc[j] # "none"
    /\ \E is_valid \in BOOLEAN :
          plPc' = [plPc EXCEPT ![k] = IF is_valid THEN "asr" ELSE "done"]
    /\ plLeft' = [plLeft EXCEPT ![k] = MaxSentences]
    /\ UNCHANGED <<pl_active_tasks, pl_is_speaking, pl_events>>
    /\ UNCHANGED nonPipeline

\* transcribe returns: an empty transcript ends the call, any other goes
\* to on_transcript
PipelineTranscript(k) ==
    /\ plPc[k] = "asr"
    /\ \E empty \in BOOLEAN :
          IF empty
          THEN /\ plPc' = [plPc EXCEPT ![k] = "done"]
               /\ UNCHANGED pl_events
          ELSE /\ plPc' = [plPc EXCEPT ![k] = "on_transcript"]
               /\ pl_events' = Append(pl_events, <<k, "on_transcript">>)
    /\ UNCHANGED <<plLeft, pl_active_tasks, pl_is_speaking>>
    /\ UNCHANGED nonPipeline

\* _stream_response starts: is_speaking is set, on_llm_start is called
PipelineStreamStart(k) ==
    /\ plPc[k] = "on_transcript"
    /\ pl_is_speaking' = TRUE
    /\ pl_events' = Append(pl_events, <<k, "on_llm_start">>)
    /\ plPc' = [plPc EXCEPT ![k] = "llm"]
    /\ UNCHANGED <<plLeft, pl_active_tasks>>
    /\ UNCHANGED nonPipeline

\* the aggregator yields a sentence: on_llm_sentence is called
PipelineSentence(k) ==
    /\ plPc[k] = "llm"
    /\ plLeft[k] > 0
    /\ plLeft' = [plLeft EXCEPT ![k] = @ - 1]
    /\ pl_events' = Append(pl_events, <<k, "on_llm_sentence">>)
    /\ plPc' = [plPc EXCEPT ![k] = "tts"]
    /\ UNCHANGED <<pl_active_tasks, pl_is_speaking>>
    /\ UNCHANGED nonPipeline

\* _stream_tts_sentence has sent the audio of the sentence to the transport
PipelineTts(k) ==
    /\ plPc[k] = "tts"
    /\ plPc' = [plPc EXCEPT ![k] = "llm"]
    /\ UNCHANGED <<plLeft, pl_active_tasks, pl_is_speaking, pl_events>>
    /\ UNCHANGED nonPipeline

\* the token stream is exhausted: on_response_complete is called
PipelineComplete(k) ==
    /\ plPc[k] = "llm"
    /\ pl_events' = Append(pl_events, <<k, "on_response_complete">>)
    /\ plPc' = [plPc EXCEPT ![k] = "complete"]
    /\ UNCHANGED <<plLeft, pl_active_tasks, pl_is_speaking>>
    /\ UNCHANGED nonPipeline

\* _stream_response and process return: is_speaking is cleared
PipelineFinish(k) ==
    /\ plPc[k] = "complete"
    /\ plPc' = [plPc EXCEPT ![k] = "done"]
    /\ pl_is_speaking' = FALSE
    /\ UNCHANGED <<plLeft, pl_active_tasks, pl_events>>
    /\ UNCHANGED nonPipeline

\* a provider raises: _stream_response clears is_speaking on the way out,
\* process calls on_error and re-raises
PipelineError(k) ==
    /\ plPc[k] \in {"asr", "llm", "tts"}
    /\ pl_is_speaking' = IF PipelineInStream(k) THEN FALSE ELSE pl_is_speaking
    /\ pl_events' = Append(pl_events, <<k, "on_error">>)
    /\ plPc' = [plPc EXCEPT ![k] = "failed"]
    /\ UNCHANGED <<plLeft, pl_active_tasks>>
    /\ UNCHANGED nonPipeline

\* interrupt(): cancel the task registered in _active_tasks, flush the
\* transport, clear is_speaking
PipelineInterrupt ==
    /\ plPc' = [k \in Runs |->
                   IF k \in pl_active_tasks /\ PipelineRunning(k)
                   THEN "cancelled" ELSE plPc[k]]
    /\ pl_is_speaking' = FALSE
    /\ UNCHANGED <<plLeft, pl_active_tasks, pl_events>>
    /\ UNCHANGED nonPipeline

MainNext ==
    \/ MainWebrtcOffer
    \/ handle_audio_chunk
    \/ BufferTimeout
    \/ \E t \in TaskIds : TaskValidate(t)
    \/ \E t \in TaskIds : TaskTranscript(t)
    \/ \E t \in TaskIds : TaskStreamStart(t)
    \/ \E t \in TaskIds : TaskToken(t)
    \/ \E t \in TaskIds : TaskLlmEnd(t)
    \/ \E t \in TaskIds : TaskTtsPush(t)
    \/ \E t \in TaskIds : TaskTtsEnd(t)
    \/ \E t \in TaskIds : TaskAgentSent(t)
    \/ \E t \in TaskIds : TaskComplete(t)
    \/ \E t \in TaskIds : TaskCancelled(t)
    \/ \E t \in TaskIds : TaskAsrRaise(t)
    \/ \E t \in TaskIds : TaskLlmRaise(t)
    \/ \E t \in TaskIds : TaskTtsRaise(t)
    \/ MainInterrupt
    \/ MainInterruptSend

PipelineNext ==
    \/ \E k \in Runs : PipelineProcess(k)
    \/ \E k \in Runs : PipelineTranscript(k)
    \/ \E k \in Runs : PipelineStreamStart(k)
    \/ \E k \in Runs : PipelineSentence(k)
    \/ \E k \in Runs : PipelineTts(k)
    \/ \E k \in Runs : PipelineComplete(k)
    \/ \E k \in Runs : PipelineFinish(k)
    \/ \E k \in Runs : PipelineError(k)
    \/ PipelineInterrupt

(***************************************************************************)
(* WebRTCManager: concurrent handle_offer, close_peer_connection,          *)
(* wait_for_track_ready, push_audio_chunk and replace_audio_track calls    *)
(* for one session.  Every await of the source is a point where the other  *)
(* callers may run.                                                        *)
(***************************************************************************)
\* TTSAudioTrack(): an empty audio_queue and an empty byte buffer
NewTrack == [queue |-> <<>>, buffer |-> {}]

ManagerInit ==
    /\ pcs = None
    /\ track_ready_events = None
    /\ tracks = None
    /\ senders = None
    /\ pcOpen = {}
    /\ eventSet = {}
    /\ senderTrack = [p \in PcIds |-> None]
    /\ trackObj = [t \in TrackIds |-> NewTrack]
    /\ added = [t \in TrackIds |-> {}]
    /\ received = [t \in TrackIds |-> {}]
    /\ nextPc = 1
    /\ nextEvent = 1
    /\ nextTrackId = 1
    /\ nextAudio = 1
    /\ offPc = [o \in Offers |-> "idle"]
    /\ offOwn = [o \in Offers |-> None]
    /\ clPc = "idle"
    /\ clTarget = None
    /\ closes = 0
    /\ wtPc = "idle"
    /\ wtEvent = None
    /\ readyPushDropped = FALSE
    /\ readyUnnegotiated = FALSE
    /\ pushPc = "idle"
    /\ pushTrack = None
    /\ pushData = None
    /\ replaces = 0
    /\ wOp = "none"

\* create_peer_connection after its optional close: a new connection, event,
\* track and sender are registered; open is the set of open connections then
CreatePc(o, open) ==
    /\ pcs' = nextPc
    /\ pcOpen' = open \cup {nextPc}
    /\ track_ready_events' = nextEvent
    /\ tracks' = nextTrackId
    /\ senders' = nextPc
    /\ senderTrack' = [senderTrack EXCEPT ![nextPc] = nextTrackId]
    /\ trackObj' = [trackObj EXCEPT ![nextTrackId] = NewTrack]
    /\ nextPc' = nextPc + 1
    /\ nextEvent' = nextEvent + 1
    /\ nextTrackId' = nextTrackId + 1
    /\ offOwn' = [offOwn EXCEPT ![o] = nextPc]
    /\ offPc' = [offPc EXCEPT ![o] = "negotiate"]

\* handle_offer is called: create_peer_connection closes a registered
\* connection first (await pc.close()), else creates the new one at once
OfferStart(o) ==
    /\ offPc[o] = "idle"
    /\ IF pcs # None
       THEN /\ offPc' = [offPc EXCEPT ![o] = "close_wait"]
            /\ offOwn' = [offOwn EXCEPT ![o] = pcs]
            /\ UNCHANGED <<pcs, pcOpen, track_ready_events, tracks, senders,
                           senderTrack, trackObj, nextPc, nextEvent,
                           nextTrackId>>
       ELSE CreatePc(o, pcOpen)
    /\ UNCHANGED <<eventSet, added, received, nextAudio, clPc, clTarget,
                   closes, wtPc, wtEvent, readyPushDropped, readyUnnegotiated,
                   pushPc, pushTrack, pushData, replaces, wOp>>
    /\ UNCHANGED nonManager

\* pc.close() of the old connection returned inside create_peer_connection:
\* del self.pcs[session_id] raises KeyError when another caller removed the
\* entry meanwhile (handle_offer then returns None); otherwise the entries
\* are removed and the new connection is created
OfferCloseDone(o) ==
    /\ offPc[o] = "close_wait"
    /\ IF pcs = None
       THEN /\ pcOpen' = pcOpen \ {offOwn[o]}
            /\ offPc' = [offPc EXCEPT ![o] = "failed"]
            /\ offOwn' = [offOwn EXCEPT ![o] = None]
            /\ UNCHANGED <<pcs, track_ready_events, tracks, senders,
                           senderTrack, trackObj, nextPc, nextEvent,
                           nextTrackId>>
       ELSE CreatePc(o, pcOpen \ {offOwn[o]})
    /\ UNCHANGED <<eventSet, added, received, nextAudio, clPc, clTarget,
                   closes, wtPc, wtEvent, readyPushDropped, readyUnnegotiated,
                   pushPc, pushTrack, pushData, replaces, wOp>>
    /\ UNCHANGED nonManager

\* setRemoteDescription, createAnswer and setLocalDescription are over:
\* on_track_established sets the session's event, creating one when the
\* entry is gone, and handle_offer returns the answer
OfferNegotiated(o) ==
    /\ offPc[o] = "negotiate"
    /\ IF track_ready_events = None
       THEN /\ track_ready_events' = nextEvent
            /\ nextEvent' = nextEvent + 1
            /\ eventSet' = eventSet \cup {nextEvent}
       ELSE /\ eventSet' = eventSet \cup {track_ready_events}
            /\ UNCHANGED <<track_ready_events, nextEvent>>
    /\ offPc' = [offPc EXCEPT ![o] = "done"]
    /\ wOp' = "handle_offer"
    /\ UNCHANGED <<pcs, tracks, senders, pcOpen, senderTrack, trackObj, added,
                   received, nextPc, nextTrackId, nextAudio, offOwn, clPc,
                   clTarget, closes, wtPc, wtEvent, readyPushDropped,
                   readyUnnegotiated, pushPc, pushTrack, pushData, replaces>>
    /\ UNCHANGED nonManager

\* the negotiation raises because the connection was closed under it: the
\* handler of handle_offer logs and returns None
OfferFailed(o) ==
    /\ offPc[o] = "negotiate"
    /\ offOwn[o] \notin pcOpen
    /\ offPc' = [offPc EXCEPT ![o] = "failed"]
    /\ UNCHANGED <<pcs, track_ready_events, tracks, senders, pcOpen, eventSet,
                   senderTrack, trackObj, added, received, nextPc, nextEvent,
                   nextTrackId, nextAudio, offOwn, clPc, clTarget, closes,
                   wtPc, wtEvent, readyPushDropped, readyUnnegotiated, pushPc,
                   pushTrack, pushData, replaces, wOp>>
    /\ UNCHANGED nonManager

\* close_peer_connection is called: await pc.close() of the registered
\* connection, or with none registered remove the other entries at once
CloseStart ==
    /\ clPc = "idle"
    /\ closes < MaxCloses
    /\ closes' = closes + 1
    /\ IF pcs # None
       THEN /\ clPc' = "close_wait"
            /\ clTarget' = pcs
            /\ UNCHANGED <<track_ready_events, tracks, senders, wOp>>
       ELSE /\ track_ready_events' = None
            /\ tracks' = None
            /\ senders' = None
            /\ wOp' = "close_peer_connection"
            /\ UNCHANGED <<clPc, clTarget>>
    /\ UNCHANGED <<pcs, pcOpen, eventSet, senderTrack, trackObj, added,
                   received, nextPc, nextEvent, nextTrackId, nextAudio, offPc,
                   offOwn, wtPc, wtEvent, readyPushDropped, readyUnnegotiated,
                   pushPc, pushTrack, pushData, replaces>>
    /\ UNCHANGED nonManager

\* pc.close() returned in close_peer_connection: del self.pcs[session_id]
\* (KeyError when the entry is gone), then the other entries
CloseDone ==
    /\ clPc = "close_wait"
    /\ pcOpen' = pcOpen \ {clTarget}
    /\ IF pcs = None
       THEN UNCHANGED <<pcs, track_ready_events, tracks, senders, wOp>>
       ELSE /\ pcs' = None
            /\ track_ready_events' = None
            /\ tracks' = None
            /\ senders' = None
            /\ wOp' = "close_peer_connection"
    /\ clPc' = "idle"
    /\ clTarget' = None
    /\ UNCHANGED <<eventSet, senderTrack, trackObj, added, received, nextPc,
                   nextEvent, nextTrackId, nextAudio, offPc, offOwn, closes,
                   wtPc, wtEvent, readyPushDropped, readyUnnegotiated, pushPc,
                   pushTrack, pushData, replaces>>
    /\ UNCHANGED nonManager

\* the session's negotiation is complete and its track is registered
TrackNegotiated ==
    /\ tracks # None
    /\ pcs # None
    /\ \E o \in Offers : offPc[o] = "done" /\ offOwn[o] = pcs

\* wait_for_track_ready is called: False with no event registered, else
\* wait on the registered event object
WaitStart ==
    /\ wtPc = "idle"
    /\ IF track_ready_events = None
       THEN /\ wtPc' = "false"
            /\ UNCHANGED wtEvent
       ELSE /\ wtPc' = "waiting"
            /\ wtEvent' = track_ready_events
    /\ UNCHANGED <<pcs, track_ready_events, tracks, senders, pcOpen, eventSet,
                   senderTrack, trackObj, added, received, nextPc, nextEvent,
                   nextTrackId, nextAudio, offPc, offOwn, clPc, clTarget,
                   closes, readyPushDropped, readyUnnegotiated, pushPc,
                   pushTrack, pushData, replaces, wOp>>
    /\ UNCHANGED nonManager

\* the event the caller waits on is set: wait_for_track_ready returns True
\* and the caller pushes at once; push_audio_chunk drops when no track is
\* registered
WaitReady ==
    /\ wtPc = "waiting"
    /\ wtEvent \in eventSet
    /\ wtPc' = "true"
    /\ readyPushDropped' = (tracks = None)
    /\ readyUnnegotiated' = ~TrackNegotiated
    /\ wOp' = "wait_for_track_ready"
    /\ UNCHANGED <<pcs, track_ready_events, tracks, senders, pcOpen, eventSet,
                   senderTrack, trackObj, added, received, nextPc, nextEvent,
                   nextTrackId, nextAudio, offPc, offOwn, clPc, clTarget,
                   closes, wtEvent, pushPc, pushTrack, pushData, replaces>>
    /\ UNCHANGED nonManager

\* the timeout of wait_for_track_ready expires first: it returns False
WaitTimeout ==
    /\ wtPc = "waiting"
    /\ wtPc' = "false"
    /\ UNCHANGED <<pcs, track_ready_events, tracks, senders, pcOpen, eventSet,
                   senderTrack, trackObj, added, received, nextPc, nextEvent,
                   nextTrackId, nextAudio, offPc, offOwn, clPc, clTarget,
                   closes, wtEvent, readyPushDropped, readyUnnegotiated,
                   pushPc, pushTrack, pushData, replaces, wOp>>
    /\ UNCHANGED nonManager

\* add_frame puts chunk c on track t
PutOnTrack(t, c) ==
    /\ trackObj' = [trackObj EXCEPT ![t].queue = Append(@, c)]
    /\ added' = [added EXCEPT ![t] = @ \cup {c}]

\* push_audio_chunk: without a registered track the chunk is dropped, else
\* add_frame on that track waits while its queue is full
PushAudioChunk ==
    /\ pushPc = "idle"
    /\ nextAudio <= MaxAudio
    /\ nextAudio' = nextAudio + 1
    /\ IF tracks = None
       THEN UNCHANGED <<trackObj, added, pushPc, pushTrack, pushData>>
       ELSE IF Len(trackObj[tracks].queue) >= MAX_QUEUE_SIZE
            THEN /\ pushPc' = "backpressure"
                 /\ pushTrack' = tracks
                 /\ pushData' = nextAudio
                 /\ UNCHANGED <<trackObj, added>>
            ELSE /\ PutOnTrack(tracks, nextAudio)
                 /\ UNCHANGED <<pushPc, pushTrack, pushData>>
    /\ wOp' = "push_audio_chunk"
    /\ UNCHANGED <<pcs, track_ready_events, tracks, senders, pcOpen, eventSet,
                   senderTrack, received, nextPc, nextEvent, nextTrackId,
                   offPc, offOwn, clPc, clTarget, closes, wtPc, wtEvent,
                   readyPushDropped, readyUnnegotiated, replaces>>
    /\ UNCHANGED nonManager

\* the pending add_frame wakes from its sleep and finds room on the track
\* object it was called on
PushRetry ==
    /\ pushPc = "backpressure"
    /\ Len(trackObj[pushTrack].queue) < MAX_QUEUE_SIZE
    /\ PutOnTrack(pushTrack, pushData)
    /\ pushPc' = "idle"
    /\ pushTrack' = None
    /\ pushData' = None
    /\ UNCHANGED <<pcs, track_ready_events, tracks, senders, pcOpen, eventSet,
                   senderTrack, received, nextPc, nextEvent, nextTrackId,
                   nextAudio, offPc, offOwn, clPc, clTarget, closes, wtPc,
                   wtEvent, readyPushDropped, readyUnnegotiated, replaces,
                   wOp>>
    /\ UNCHANGED nonManager

\* the sender of an open connection calls recv() of its track: the next
\* chunk of the queue joins the byte buffer, a frame is returned, and the
\* tail of the chunk may stay in the buffer
ManagerRecv ==
    /\ \E p \in pcOpen :
          LET t == senderTrack[p]
          IN /\ t # None
             /\ trackObj[t].queue # <<>>
             /\ LET c == Head(trackObj[t].queue)
                IN /\ received' = [received EXCEPT
                                      ![t] = @ \cup trackObj[t].buffer \cup {c}]
                   /\ \E rest \in {{}, {c}} :
                         trackObj' = [trackObj EXCEPT
                                         ![t] = [queue |-> Tail(@.queue),
                                                 buffer |-> rest]]
    /\ UNCHANGED <<pcs, track_ready_events, tracks, senders, pcOpen, eventSet,
                   senderTrack, added, nextPc, nextEvent, nextTrackId,
                   nextAudio, offPc, offOwn, clPc, clTarget, closes, wtPc,
                   wtEvent, readyPushDropped, readyUnnegotiated, pushPc,
                   pushTrack, pushData, replaces, wOp>>
    /\ UNCHANGED nonManager

\* a replacement whose new track takes over the queue and the byte buffer
\* of the old one
replace_audio_trackCarryOver ==
    /\ replaces < MaxReplaces
    /\ replaces' = replaces + 1
    /\ IF pcs = None \/ senders = None
       THEN /\ wOp' = "replace_audio_track_skipped"
            /\ UNCHANGED <<tracks, senderTrack, trackObj, nextTrackId>>
       ELSE /\ tracks' = nextTrackId
            /\ trackObj' = [trackObj EXCEPT
                               ![nextTrackId] =
                                   IF tracks = None THEN NewTrack
                                   ELSE trackObj[tracks]]
            /\ senderTrack' = [senderTrack EXCEPT ![senders] = nextTrackId]
            /\ nextTrackId' = nextTrackId + 1
            /\ wOp' = "replace_audio_track"
    /\ UNCHANGED <<pcs, track_ready_events, senders, pcOpen, eventSet, added,
                   received, nextPc, nextEvent, nextAudio, offPc, offOwn,
                   clPc, clTarget, closes, wtPc, wtEvent, readyPushDropped,
                   readyUnnegotiated, pushPc, pushTrack, pushData>>
    /\ UNCHANGED nonManager

\* replace_audio_track: with a connection and a sender registered, a fresh
\* track is registered and handed to the sender
replace_audio_track ==
    /\ replaces < MaxReplaces
    /\ replaces' = replaces + 1
    /\ IF pcs = None \/ senders = None
       THEN /\ wOp' = "replace_audio_track_skipped"
            /\ UNCHANGED <<tracks, senderTrack, trackObj, nextTrackId>>
       ELSE /\ tracks' = nextTrackId
            /\ trackObj' = [trackObj EXCEPT ![nextTrackId] = NewTrack]
            /\ senderTrack' = [senderTrack EXCEPT ![senders] = nextTrackId]
            /\ nextTrackId' = nextTrackId + 1
            /\ wOp' = "replace_audio_track"
    /\ UNCHANGED <<pcs, track_ready_events, senders, pcOpen, eventSet, added,
                   received, nextPc, nextEvent, nextAudio, offPc, offOwn,
                   clPc, clTarget, closes, wtPc, wtEvent, readyPushDropped,
                   readyUnnegotiated, pushPc, pushTrack, pushData>>
    /\ UNCHANGED nonManager

\* the connection life cycle: concurrent offers, a close, and a caller of
\* wait_for_track_ready
ManagerNext ==
    \/ \E o \in Offers : OfferStart(o)
    \/ \E o \in Offers : OfferCloseDone(o)
    \/ \E o \in Offers : OfferNegotiated(o)
    \/ \E o \in Offers : OfferFailed(o)
    \/ CloseStart
    \/ CloseDone
    \/ WaitStart
    \/ WaitReady
    \/ WaitTimeout

\* the audio path of a session that one offer sets up: pushes, recv() of the
\* sender, track replacement, and a close
ManagerAudioNext ==
    \/ OfferStart(1)
    \/ OfferNegotiated(1)
    \/ OfferFailed(1)
    \/ CloseStart
    \/ CloseDone
    \/ PushAudioChunk
    \/ PushRetry
    \/ ManagerRecv
    \/ replace_audio_track

(***************************************************************************)
(* VoiceSessionManager: connect, disconnect, process_message and           *)
(* _stream_tts_to_webrtc against the per-session registries.  The manager  *)
(* is as constructed: a WebRTC manager factory is set, no callback is.     *)
(***************************************************************************)
\* an absent entry of session_data
NoSession == [present |-> FALSE, user_id |-> None, webrtc_enabled |-> FALSE]

\* tts_streaming_tasks is created empty and no code adds to it
tts_streaming_tasks == {}

\* max_retries of connect
max_retries == 3

\* candidate strings: empty, fewer than 8 fields, 8 fields of which one does
\* not parse, well formed
Candidates == {"", "short", "bad_field", "ok"}

\* the messages a client sends over the socket of session c: text that is
\* not JSON, a message without session_id, offers with and without sdp and
\* type, candidates, interrupt and heartbeat
Message(c, json, sid, event, sdp, type, candidate) ==
    [conn |-> c, json |-> json, session_id |-> sid, event |-> event,
     sdp |-> sdp, type |-> type, candidate |-> candidate]

Messages(c) ==
    {Message(c, FALSE, None, "none", FALSE, FALSE, "")}
    \cup {Message(c, TRUE, None, e, TRUE, TRUE, "ok") :
             e \in {"webrtc_offer", "webrtc_ice_candidate"}}
    \cup {Message(c, TRUE, c, "webrtc_offer", sdp, type, "") :
             sdp \in BOOLEAN, type \in BOOLEAN}
    \cup {Message(c, TRUE, c, "webrtc_ice_candidate", FALSE, FALSE, cand) :
             cand \in Candidates}
    \cup {Message(c, TRUE, c, e, FALSE, FALSE, "") :
             e \in {"interrupt", "heartbeat"}}

\* text that is not JSON, a message without session_id, an offer without
\* sdp or type, a candidate that is empty or does not parse
Malformed(m) ==
    \/ ~m.json
    \/ m.session_id = None
    \/ m.event = "webrtc_offer" /\ ~(m.sdp /\ m.type)
    \/ m.event = "webrtc_ice_candidate" /\ m.candidate # "ok"

RegistryInit ==
    /\ active_connections = {}
    /\ user_sessions = [u \in Users |-> None]
    /\ session_data = [s \in SessionIds |-> NoSession]
    /\ streaming_tasks = {}
    /\ tts_chunk_counts = {}
    /\ ffmpeg_processes = {}
    /\ rtc_pcs = {}
    /\ ice_candidates = [s \in SessionIds |-> 0]
    /\ next_session = 1
    /\ connPc = [s \in SessionIds |-> "none"]
    /\ attempts = [s \in SessionIds |-> 0]
    /\ connected_sent = [s \in SessionIds |-> 0]
    /\ discPc = [s \in SessionIds |-> "idle"]
    /\ strPc = [s \in SessionIds |-> "idle"]
    /\ msgCount = 0
    /\ lastMalformed = FALSE
    /\ msgPhase = [s \in SessionIds |-> "none"]

\* connect up to the retry loop: a fresh session id is generated and the
\* session is stored in active_connections, user_sessions and session_data
Connect(u) ==
    /\ next_session <= NumSessions
    /\ LET s == next_session
       IN /\ active_connections' = active_connections \cup {s}
          /\ user_sessions' = [user_sessions EXCEPT ![u] = s]
          /\ session_data' = [session_data EXCEPT
                                 ![s] = [present |-> TRUE, user_id |-> u,
                                         webrtc_enabled |-> FALSE]]
          /\ connPc' = [connPc EXCEPT ![s] = "send"]
    /\ next_session' = next_session + 1
    /\ UNCHANGED <<streaming_tasks, tts_chunk_counts, ffmpeg_processes,
                   rtc_pcs, ice_candidates, attempts, connected_sent, discPc,
                   strPc, msgCount, lastMalformed, msgPhase>>
    /\ UNCHANGED nonRegistry

\* one pass of the retry loop of connect after a send_message that raised:
\* sleep and try again, or raise when the attempts are used up
ConnectSendFailed(s) ==
    /\ attempts' = [attempts EXCEPT ![s] = @ + 1]
    /\ connPc' = [connPc EXCEPT
                     ![s] = IF attempts[s] < max_retries - 1 THEN "send"
                            ELSE "raised"]
    /\ UNCHANGED connected_sent

\* one pass of the retry loop of connect after a send_message that
\* returned: break and return the session id
ConnectSendOkKeepsSending(s) ==
    /\ attempts' = [attempts EXCEPT ![s] = @ + 1]
    /\ connected_sent' = [connected_sent EXCEPT ![s] = @ + 1]
    /\ connPc' = [connPc EXCEPT
                     ![s] = IF attempts[s] < max_retries - 1 THEN "send"
                            ELSE "returned"]

ConnectSendOk(s) ==
    /\ attempts' = [attempts EXCEPT ![s] = @ + 1]
    /\ connected_sent' = [connected_sent EXCEPT ![s] = @ + 1]
    /\ connPc' = [connPc EXCEPT ![s] = "returned"]

\* connect, one attempt: send_message(raise_on_error=True) raises when the
\* session is not in active_connections, when the socket is not CONNECTED
\* and when send_text raises
ConnectSend(s) ==
    /\ connPc[s] = "send"
    /\ \E connected \in BOOLEAN, send_text_ok \in BOOLEAN :
          IF s \in active_connections /\ connected /\ send_text_ok
          THEN ConnectSendOk(s)
          ELSE ConnectSendFailed(s)
    /\ UNCHANGED <<registries, next_session, discPc, strPc,
                   msgCount, lastMalformed, msgPhase>>
    /\ UNCHANGED nonRegistry

\* disconnect up to "await webrtc.close_peer_connection": the session
\* leaves active_connections and the entry of its user leaves user_sessions
DisconnectStart(s) ==
    /\ connPc[s] = "returned"
    /\ discPc[s] = "idle"
    /\ s \in active_connections
    /\ LET user_id == session_data[s].user_id
       IN user_sessions' = IF user_id # None /\ user_sessions[user_id] # None
                           THEN [user_sessions EXCEPT ![user_id] = None]
                           ELSE user_sessions
    /\ active_connections' = active_connections \ {s}
    /\ discPc' = [discPc EXCEPT ![s] = "close_wait"]
    /\ UNCHANGED <<session_data, streaming_tasks, tts_chunk_counts,
                   ffmpeg_processes, rtc_pcs, ice_candidates,
                   next_session, connPc, attempts, connected_sent, strPc,
                   msgCount, lastMalformed, msgPhase>>
    /\ UNCHANGED nonRegistry

\* disconnect after close_peer_connection returned: the entries of the
\* session in session_data, tts_chunk_counts and ffmpeg_processes are
\* deleted
DisconnectFinish(s) ==
    /\ discPc[s] = "close_wait"
    /\ rtc_pcs' = rtc_pcs \ {s}
    /\ session_data' = [session_data EXCEPT ![s] = NoSession]
    /\ tts_chunk_counts' = tts_chunk_counts \ {s}
    /\ ffmpeg_processes' = ffmpeg_processes \ {s}
    /\ discPc' = [discPc EXCEPT ![s] = "done"]
    /\ UNCHANGED <<active_connections, user_sessions, streaming_tasks,
                   ice_candidates, next_session, connPc,
                   attempts, connected_sent, strPc, msgCount, lastMalformed,
                   msgPhase>>
    /\ UNCHANGED nonRegistry

\* handle_webrtc_offer of VoiceSessionManager: an offer without sdp or
\* without type is logged and dropped; handle_offer registers a connection
\* for the session and webrtc_enabled is set when it returns an answer
handle_webrtc_offerSdpOnly(s, sdp, type, answer) ==
    IF ~sdp
    THEN UNCHANGED <<rtc_pcs, ice_candidates, session_data>>
    ELSE /\ rtc_pcs' = rtc_pcs \cup {s}
         /\ ice_candidates' = [ice_candidates EXCEPT ![s] = 0]
         /\ session_data' =
               IF type /\ answer /\ session_data[s].present
               THEN [session_data EXCEPT ![s].webrtc_enabled = TRUE]
               ELSE session_data

handle_webrtc_offer(s, sdp, type, answer) ==
    IF ~sdp \/ ~type
    THEN UNCHANGED <<rtc_pcs, ice_candidates, session_data>>
    ELSE /\ rtc_pcs' = rtc_pcs \cup {s}
         /\ ice_candidates' = [ice_candidates EXCEPT ![s] = 0]
         /\ session_data' =
               IF answer /\ session_data[s].present
               THEN [session_data EXCEPT ![s].webrtc_enabled = TRUE]
               ELSE session_data

\* handle_webrtc_ice_candidate and WebRTCManager.handle_ice_candidate: an
\* empty candidate, a session without connection, a candidate of fewer than
\* 8 fields and one whose fields do not parse are dropped; any other is
\* added to the connection of the session
handle_webrtc_ice_candidate(s, candidate) ==
    /\ ice_candidates' =
          IF candidate # "" /\ s \in rtc_pcs
             /\ candidate \notin {"short", "bad_field"}
          THEN [ice_candidates EXCEPT ![s] = @ + 1]
          ELSE ice_candidates
    /\ UNCHANGED <<rtc_pcs, session_data>>

\* process_message: text that is not JSON, a message without session_id and
\* one for a session that is not active are dropped; the others go to the
\* default handler of their event
process_message(c, m, answer) ==
    /\ connPc[c] = "returned"
    /\ msgCount < MaxMsgs
    /\ msgCount' = msgCount + 1
    /\ IF m.json /\ m.session_id # None /\ m.session_id \in active_connections
       THEN CASE m.event = "webrtc_offer" ->
                    /\ handle_webrtc_offer(m.session_id, m.sdp, m.type,
                                           answer)
                    /\ UNCHANGED streaming_tasks
              [] m.event = "webrtc_ice_candidate" ->
                    /\ handle_webrtc_ice_candidate(m.session_id, m.candidate)
                    /\ UNCHANGED streaming_tasks
              [] m.event = "interrupt" ->
                    /\ streaming_tasks' = streaming_tasks \cup {m.session_id}
                    /\ UNCHANGED <<rtc_pcs, ice_candidates, session_data>>
              [] OTHER ->
                    UNCHANGED <<rtc_pcs, ice_candidates, session_data,
                                streaming_tasks>>
       ELSE UNCHANGED <<rtc_pcs, ice_candidates, session_data,
                        streaming_tasks>>
    /\ lastMalformed' = Malformed(m)
    /\ msgPhase' =
          IF Malformed(m) THEN [msgPhase EXCEPT ![c] = "malformed"]
          ELSE IF msgPhase[c] = "malformed" /\ c \in active_connections
          THEN [msgPhase EXCEPT ![c] = "handled"]
          ELSE msgPhase
    /\ UNCHANGED <<active_connections, user_sessions, tts_chunk_counts,
                   ffmpeg_processes, next_session, connPc, attempts,
                   connected_sent, discPc, strPc>>
    /\ UNCHANGED nonRegistry

\* _stream_tts_to_webrtc, called by stream_tts_response for a session with
\* webrtc_enabled: the transcoding process is created and registered
RegistryStreamStart(s) ==
    /\ strPc[s] = "idle"
    /\ session_data[s].present
    /\ session_data[s].webrtc_enabled
    /\ ffmpeg_processes' = ffmpeg_processes \cup {s}
    /\ strPc' = [strPc EXCEPT ![s] = "running"]
    /\ UNCHANGED <<active_connections, user_sessions, session_data,
                   streaming_tasks, tts_chunk_counts, rtc_pcs,
                   ice_candidates, next_session, connPc,
                   attempts, connected_sent, discPc, msgCount, lastMalformed,
                   msgPhase>>
    /\ UNCHANGED nonRegistry

\* _stream_tts_to_webrtc, the gather is over: the chunk count of the
\* session is stored and the process is taken out of ffmpeg_processes; when
\* the gather raised only the process is taken out
RegistryStreamEnd(s) ==
    /\ strPc[s] = "running"
    /\ \E raised \in BOOLEAN :
          tts_chunk_counts' = IF raised THEN tts_chunk_counts
                              ELSE tts_chunk_counts \cup {s}
    /\ ffmpeg_processes' = ffmpeg_processes \ {s}
    /\ strPc' = [strPc EXCEPT ![s] = "done"]
    /\ UNCHANGED <<active_connections, user_sessions, session_data,
                   streaming_tasks, rtc_pcs, ice_candidates,
                   next_session, connPc, attempts, connected_sent, discPc,
                   msgCount, lastMalformed, msgPhase>>
    /\ UNCHANGED nonRegistry

RegistryNext ==
    \/ \E u \in Users : Connect(u)
    \/ \E s \in SessionIds : ConnectSend(s)
    \/ \E s \in SessionIds : DisconnectStart(s)
    \/ \E s \in SessionIds : DisconnectFinish(s)
    \/ \E c \in SessionIds, answer \in BOOLEAN :
          \E m \in Messages(c) : process_message(c, m, answer)
    \/ \E s \in SessionIds : RegistryStreamStart(s)
    \/ \E s \in SessionIds : RegistryStreamEnd(s)

(***************************************************************************)
(* AudioConverter.mp3_to_pcm_stream: the generator, its feed_input task    *)
(* and the FFmpeg process of one call.  The consumer may ask for the next  *)
(* chunk, or be cancelled, at every point where the generator is           *)
(* suspended.                                                              *)
(***************************************************************************)
ConverterInit ==
    /\ convPc = "idle"
    /\ process = "none"
    /\ input_task = "none"
    /\ input_cancel = FALSE
    /\ stdin_closed = FALSE
    /\ mp3_left = 0
    /\ pcm_out = 0
    /\ finish = "none"
    /\ killed = FALSE

\* the call: FFmpeg is spawned and feed_input starts as a task
ConvStart ==
    /\ convPc = "idle"
    /\ \E n \in 0..MaxMp3 : mp3_left' = n
    /\ process' = "running"
    /\ input_task' = "running"
    /\ convPc' = "read"
    /\ UNCHANGED <<input_cancel, stdin_closed, pcm_out, finish, killed>>
    /\ UNCHANGED nonConverter

\* feed_input writes one chunk and drains; FFmpeg turns it into PCM.  A
\* write to a process that has exited raises, the handler closes stdin
FeedWrite ==
    /\ input_task = "running"
    /\ ~input_cancel
    /\ mp3_left > 0
    /\ IF process = "running"
       THEN /\ pcm_out < MaxPipe
            /\ pcm_out' = pcm_out + 1
            /\ mp3_left' = mp3_left - 1
            /\ UNCHANGED <<input_task, stdin_closed>>
       ELSE /\ input_task' = "done"
            /\ stdin_closed' = TRUE
            /\ UNCHANGED <<pcm_out, mp3_left>>
    /\ UNCHANGED <<convPc, process, input_cancel, finish, killed>>
    /\ UNCHANGED nonConverter

\* feed_input ends: the MP3 stream is exhausted or raises; stdin is closed
FeedEnd ==
    /\ input_task = "running"
    /\ ~input_cancel
    /\ \E raised \in BOOLEAN : raised \/ mp3_left = 0
    /\ input_task' = "done"
    /\ stdin_closed' = TRUE
    /\ UNCHANGED <<convPc, process, input_cancel, mp3_left, pcm_out, finish,
                   killed>>
    /\ UNCHANGED nonConverter

\* feed_input receives CancelledError at its await: "except Exception" does
\* not catch it and the task ends cancelled
FeedCancelled ==
    /\ input_task = "running"
    /\ input_cancel
    /\ input_task' = "cancelled"
    /\ UNCHANGED <<convPc, process, input_cancel, stdin_closed, mp3_left,
                   pcm_out, finish, killed>>
    /\ UNCHANGED nonConverter

\* FFmpeg exits by itself: at the end of its input, or on an error
ProcessExit ==
    /\ process = "running"
    /\ process' = "exited"
    /\ UNCHANGED <<convPc, input_task, input_cancel, stdin_closed, mp3_left,
                   pcm_out, finish, killed>>
    /\ UNCHANGED nonConverter

\* the finally block starts: input_task.cancel(), then "await input_task"
Cleanup(cause) ==
    /\ finish' = cause
    /\ input_cancel' = (input_task = "running")
    /\ convPc' = "await_input"

\* process.stdout.read returns a chunk, which is yielded; returns b"" at
\* the end of the output, which leaves the loop; or raises
ConvRead ==
    /\ convPc = "read"
    /\ \/ /\ pcm_out > 0
          /\ pcm_out' = pcm_out - 1
          /\ convPc' = "yielded"
          /\ UNCHANGED <<finish, input_cancel>>
       \/ /\ pcm_out = 0
          /\ process = "exited"
          /\ Cleanup("eof")
          /\ UNCHANGED pcm_out
       \/ /\ Cleanup("read_error")
          /\ UNCHANGED pcm_out
    /\ UNCHANGED <<process, input_task, stdin_closed, mp3_left, killed>>
    /\ UNCHANGED nonConverter

\* the consumer asks for the next chunk
ConvResume ==
    /\ convPc = "yielded"
    /\ convPc' = "read"
    /\ UNCHANGED <<process, input_task, input_cancel, stdin_closed, mp3_left,
                   pcm_out, finish, killed>>
    /\ UNCHANGED nonConverter

\* the consumer is cancelled: CancelledError is raised at the read, or the
\* generator suspended at its yield is closed
ConvCancel ==
    /\ convPc \in {"read", "yielded"}
    /\ Cleanup("cancelled")
    /\ UNCHANGED <<process, input_task, stdin_closed, mp3_left, pcm_out,
                   killed>>
    /\ UNCHANGED nonConverter

\* "await input_task" returns: a process without returncode is killed and
\* waited for
CleanupInputDoneNoKill ==
    /\ convPc = "await_input"
    /\ input_task \in {"done", "cancelled"}
    /\ convPc' = "finished"
    /\ UNCHANGED <<input_task, input_cancel, stdin_closed, mp3_left, pcm_out,
                   finish, process, killed>>
    /\ UNCHANGED nonConverter

CleanupInputDone ==
    /\ convPc = "await_input"
    /\ input_task \in {"done", "cancelled"}
    /\ IF process = "running"
       THEN /\ process' = "exited"
            /\ killed' = TRUE
            /\ convPc' = "await_exit"
       ELSE /\ convPc' = "finished"
            /\ UNCHANGED <<process, killed>>
    /\ UNCHANGED <<input_task, input_cancel, stdin_closed, mp3_left, pcm_out,
                   finish>>
    /\ UNCHANGED nonConverter

\* "await process.wait()" returns, or is left by a cancellation of the
\* consumer
CleanupExit ==
    /\ convPc = "await_exit"
    /\ \E cancelled \in BOOLEAN :
          finish' = IF cancelled THEN "cancelled" ELSE finish
    /\ convPc' = "finished"
    /\ UNCHANGED <<process, input_task, input_cancel, stdin_closed, mp3_left,
                   pcm_out, killed>>
    /\ UNCHANGED nonConverter

ConverterNext ==
    \/ ConvStart
    \/ FeedWrite
    \/ FeedEnd
    \/ FeedCancelled
    \/ ProcessExit
    \/ ConvRead
    \/ ConvResume
    \/ ConvCancel
    \/ CleanupInputDone
    \/ CleanupExit

\* connections and signalling only: no disconnect, no speech, and at most
\* MaxSignalSessions connections
SignallingNext ==
    \/ \E u \in Users : next_session <= MaxSignalSessions /\ Connect(u)
    \/ \E s \in SessionIds : ConnectSend(s)
    \/ \E c \in SessionIds, answer \in BOOLEAN :
          \E m \in Messages(c) : process_message(c, m, answer)

(***************************************************************************)
(* Locks of AudioChunkQueueManager and AudioChunkQueue, one statement at a *)
(* time.  The event loop runs one task until it suspends; a task suspends  *)
(* where an await cannot go on at once.  The queue is followed as one      *)
(* object, whichever session id it is registered under.                   *)
(***************************************************************************)
LockOps == {"get_queue", "remove_queue", "put", "get", "clear"}

\* first statement of each call: its first async with
FirstPc(op) ==
    CASE op = "get_queue" -> "gq_acq"
      [] op = "remove_queue" -> "rq_acq"
      [] op = "put" -> "put_acq1"
      [] op = "get" -> "get_acq"
      [] op = "clear" -> "cl_acq"

AcquirePcs ==
    {"gq_acq", "rq_acq", "rq_clear_acq", "put_acq1", "put_acq2", "get_acq",
     "cl_acq"}

\* the lock an async with statement takes
LockOf(pc) == IF pc \in {"gq_acq", "rq_acq"} THEN "mgr" ELSE "queue"

\* the statement inside the async with
AfterAcquire(pc) ==
    CASE pc = "gq_acq" -> "gq_body"
      [] pc = "rq_acq" -> "rq_test"
      [] pc = "rq_clear_acq" -> "rq_clear"
      [] pc = "put_acq1" -> "put_check"
      [] pc = "put_acq2" -> "put_append"
      [] pc = "get_acq" -> "get_body"
      [] pc = "cl_acq" -> "cl_body"

\* asyncio.Lock.release(): the future of the first waiter is resolved
Released(woken, l) ==
    IF lock_waiters[l] = <<>>
    THEN woken
    ELSE [woken EXCEPT ![Head(lock_waiters[l])] = TRUE]

\* space_available.set(): resolves the wait of every put suspended on it
LkEventSet(woken) == [t \in LkTasks |-> woken[t] \/ lk_wait[t] = "event"]

LockInit ==
    /\ lk_running = 0
    /\ lk_pc = [t \in LkTasks |-> "idle"]
    /\ lk_wait = [t \in LkTasks |-> "none"]
    /\ lk_woken = [t \in LkTasks |-> FALSE]
    /\ locks = [mgr |-> 0, queue |-> 0]
    /\ lock_waiters = [mgr |-> <<>>, queue |-> <<>>]
    /\ lk_len = 0
    /\ lk_event = TRUE
    /\ lk_mapped = FALSE
    /\ lk_calls = 0

\* the event loop starts a task that calls op
LkCall(t, op) ==
    /\ lk_running = 0
    /\ lk_pc[t] = "idle"
    /\ lk_calls < MaxLockCalls
    /\ lk_calls' = lk_calls + 1
    /\ lk_pc' = [lk_pc EXCEPT ![t] = FirstPc(op)]
    /\ lk_running' = t
    /\ UNCHANGED <<lk_wait, lk_woken, locks, lock_waiters, lk_len, lk_event,
                   lk_mapped>>
    /\ UNCHANGED nonLocks

\* async with lock: asyncio.Lock.acquire() takes a free lock that has no
\* waiter at once, else the task joins the waiters and suspends
LkAcquire(t) ==
    /\ lk_running = t
    /\ lk_pc[t] \in AcquirePcs
    /\ LET l == LockOf(lk_pc[t])
       IN IF locks[l] = 0 /\ lock_waiters[l] = <<>>
          THEN /\ locks' = [locks EXCEPT ![l] = t]
               /\ lk_pc' = [lk_pc EXCEPT ![t] = AfterAcquire(lk_pc[t])]
               /\ UNCHANGED <<lk_running, lk_wait, lock_waiters>>
          ELSE /\ lock_waiters' = [lock_waiters EXCEPT ![l] = Append(@, t)]
               /\ lk_wait' = [lk_wait EXCEPT ![t] = "lock"]
               /\ lk_running' = 0
               /\ UNCHANGED <<locks, lk_pc>>
    /\ UNCHANGED <<lk_woken, lk_len, lk_event, lk_mapped, lk_calls>>
    /\ UNCHANGED nonLocks

\* the event loop resumes a task whose future is resolved: a lock waiter
\* takes the lock, a put goes on to its second locked section
LkResume(t) ==
    /\ lk_running = 0
    /\ lk_wait[t] # "none"
    /\ lk_woken[t]
    /\ lk_running' = t
    /\ lk_wait' = [lk_wait EXCEPT ![t] = "none"]
    /\ lk_woken' = [lk_woken EXCEPT ![t] = FALSE]
    /\ IF lk_wait[t] = "lock"
       THEN LET l == LockOf(lk_pc[t])
            IN /\ locks' = [locks EXCEPT ![l] = t]
               /\ lock_waiters' =
                      [lock_waiters EXCEPT
                          ![l] = SelectSeq(@, LAMBDA u : u # t)]
               /\ lk_pc' = [lk_pc EXCEPT ![t] = AfterAcquire(lk_pc[t])]
       ELSE /\ lk_pc' = [lk_pc EXCEPT ![t] = "put_acq2"]
            /\ UNCHANGED <<locks, lock_waiters>>
    /\ UNCHANGED <<lk_len, lk_event, lk_mapped, lk_calls>>
    /\ UNCHANGED nonLocks

\* wait_for times out on a put whose event wait is not resolved: the chunk
\* is dropped and put returns False
LkTimeout(t) ==
    /\ lk_running = 0
    /\ lk_wait[t] = "event"
    /\ ~lk_woken[t]
    /\ lk_wait' = [lk_wait EXCEPT ![t] = "none"]
    /\ lk_pc' = [lk_pc EXCEPT ![t] = "idle"]
    /\ UNCHANGED <<lk_running, lk_woken, locks, lock_waiters, lk_len,
                   lk_event, lk_mapped, lk_calls>>
    /\ UNCHANGED nonLocks

\* get_queue, inside the manager lock: register a queue if there is none,
\* return it
LkGetQueue(t) ==
    /\ lk_running = t
    /\ lk_pc[t] = "gq_body"
    /\ lk_mapped' = TRUE
    /\ locks' = [locks EXCEPT !.mgr = 0]
    /\ lk_woken' = Released(lk_woken, "mgr")
    /\ lk_pc' = [lk_pc EXCEPT ![t] = "idle"]
    /\ lk_running' = 0
    /\ UNCHANGED <<lk_wait, lock_waiters, lk_len, lk_event, lk_calls>>
    /\ UNCHANGED nonLocks

\* remove_queue, inside the manager lock: an unknown session ends the call,
\* else await queue.clear()
LkRemoveTest(t) ==
    /\ lk_running = t
    /\ lk_pc[t] = "rq_test"
    /\ IF lk_mapped
       THEN /\ lk_pc' = [lk_pc EXCEPT ![t] = "rq_clear_acq"]
            /\ UNCHANGED <<lk_running, locks, lk_woken>>
       ELSE /\ locks' = [locks EXCEPT !.mgr = 0]
            /\ lk_woken' = Released(lk_woken, "mgr")
            /\ lk_pc' = [lk_pc EXCEPT ![t] = "idle"]
            /\ lk_running' = 0
    /\ UNCHANGED <<lk_wait, lock_waiters, lk_len, lk_event, lk_mapped,
                   lk_calls>>
    /\ UNCHANGED nonLocks

\* clear(), inside the queue lock, called on its own or by remove_queue
LkClearBody(t) ==
    /\ lk_running = t
    /\ lk_pc[t] \in {"rq_clear", "cl_body"}
    /\ lk_len' = 0
    /\ lk_event' = TRUE
    /\ locks' = [locks EXCEPT !.queue = 0]
    /\ lk_woken' = Released(LkEventSet(lk_woken), "queue")
    /\ IF lk_pc[t] = "rq_clear"
       THEN /\ lk_pc' = [lk_pc EXCEPT ![t] = "rq_del"]
            /\ UNCHANGED lk_running
       ELSE /\ lk_pc' = [lk_pc EXCEPT ![t] = "idle"]
            /\ lk_running' = 0
    /\ UNCHANGED <<lk_wait, lock_waiters, lk_mapped, lk_calls>>
    /\ UNCHANGED nonLocks

\* remove_queue after clear(): del self.queues[session_id]
LkRemoveDel(t) ==
    /\ lk_running = t
    /\ lk_pc[t] = "rq_del"
    /\ lk_mapped' = FALSE
    /\ locks' = [locks EXCEPT !.mgr = 0]
    /\ lk_woken' = Released(lk_woken, "mgr")
    /\ lk_pc' = [lk_pc EXCEPT ![t] = "idle"]
    /\ lk_running' = 0
    /\ UNCHANGED <<lk_wait, lock_waiters, lk_len, lk_event, lk_calls>>
    /\ UNCHANGED nonLocks

\* a put that waits for space inside its first locked section
LkPutCheckKeepsLock(t) ==
    /\ lk_running = t
    /\ lk_pc[t] = "put_check"
    /\ LET ev == IF lk_len >= LkMaxSize THEN FALSE ELSE lk_event
       IN /\ lk_event' = ev
          /\ lk_pc' = [lk_pc EXCEPT ![t] = "put_acq2"]
          /\ lk_wait' = [lk_wait EXCEPT ![t] = "event"]
          /\ lk_woken' = [lk_woken EXCEPT ![t] = ev]
          /\ lk_running' = 0
    /\ UNCHANGED <<locks, lock_waiters, lk_len, lk_mapped, lk_calls>>
    /\ UNCHANGED nonLocks

\* put, first locked section and the wait that follows it: a full queue
\* clears the event; the lock is released; wait_for(space_available.wait())
\* goes on at once or suspends, with its future resolved if the event is set
LkPutCheck(t) ==
    /\ lk_running = t
    /\ lk_pc[t] = "put_check"
    /\ LET ev == IF lk_len >= LkMaxSize THEN FALSE ELSE lk_event
           woken == Released(lk_woken, "queue")
       IN /\ lk_event' = ev
          /\ locks' = [locks EXCEPT !.queue = 0]
          /\ lk_pc' = [lk_pc EXCEPT ![t] = "put_acq2"]
          /\ \/ /\ ev
                /\ lk_woken' = woken
                /\ UNCHANGED <<lk_running, lk_wait>>
             \/ /\ lk_wait' = [lk_wait EXCEPT ![t] = "event"]
                /\ lk_woken' = [woken EXCEPT ![t] = ev]
                /\ lk_running' = 0
    /\ UNCHANGED <<lock_waiters, lk_len, lk_mapped, lk_calls>>
    /\ UNCHANGED nonLocks

\* put, second locked section: append to the deque(maxlen=max_size)
LkPutAppend(t) ==
    /\ lk_running = t
    /\ lk_pc[t] = "put_append"
    /\ lk_len' = IF lk_len < LkMaxSize THEN lk_len + 1 ELSE lk_len
    /\ locks' = [locks EXCEPT !.queue = 0]
    /\ lk_woken' = Released(lk_woken, "queue")
    /\ lk_pc' = [lk_pc EXCEPT ![t] = "idle"]
    /\ lk_running' = 0
    /\ UNCHANGED <<lk_wait, lock_waiters, lk_event, lk_mapped, lk_calls>>
    /\ UNCHANGED nonLocks

\* get(), inside the queue lock
LkGetBody(t) ==
    /\ lk_running = t
    /\ lk_pc[t] = "get_body"
    /\ IF lk_len = 0
       THEN /\ lk_woken' = Released(lk_woken, "queue")
            /\ UNCHANGED <<lk_len, lk_event>>
       ELSE /\ lk_len' = lk_len - 1
            /\ lk_event' = TRUE
            /\ lk_woken' = Released(LkEventSet(lk_woken), "queue")
    /\ locks' = [locks EXCEPT !.queue = 0]
    /\ lk_pc' = [lk_pc EXCEPT ![t] = "idle"]
    /\ lk_running' = 0
    /\ UNCHANGED <<lk_wait, lock_waiters, lk_mapped, lk_calls>>
    /\ UNCHANGED nonLocks

LockNext ==
    \/ \E t \in LkTasks, op \in LockOps : LkCall(t, op)
    \/ \E t \in LkTasks : LkAcquire(t)
    \/ \E t \in LkTasks : LkResume(t)
    \/ \E t \in LkTasks : LkTimeout(t)
    \/ \E t \in LkTasks : LkGetQueue(t)
    \/ \E t \in LkTasks : LkRemoveTest(t)
    \/ \E t \in LkTasks : LkClearBody(t)
    \/ \E t \in LkTasks : LkRemoveDel(t)
    \/ \E t \in LkTasks : LkPutCheck(t)
    \/ \E t \in LkTasks : LkPutAppend(t)
    \/ \E t \in LkTasks : LkGetBody(t)

(***************************************************************************)
(* One SentenceAggregator shared by the responses of several sessions:     *)
(* StreamingVoicePipeline._stream_response iterates                        *)
(* self._aggregator.process_stream for whichever session is responding.    *)
(* A generator is suspended while it awaits its next token and at each     *)
(* yield; what lies between runs without interruption.                     *)
(***************************************************************************)
\* the letter the tokens of session s are made of
ShLetter(s) == LowerChars[s]

ShLetters == {ShLetter(s) : s \in ShSessions}

\* the reply of session s: "xx. xx. ..." in tokens of two characters
RECURSIVE ShStream(_, _)
ShStream(s, n) ==
    IF n = 0
    THEN <<>>
    ELSE Append(ShStream(s, n - 1),
                IF n % 2 = 1 THEN <<ShLetter(s), ShLetter(s)>>
                ELSE <<".", " ">>)

\* the loop of process_stream up to its next yield: the sentence yielded
\* (<<>> when the loop breaks instead) and the buffer left
RECURSIVE NextYield(_, _)
NextYield(text, cfg) ==
    LET cut == LoopCut(text, cfg)
        piece == Strip(SubSeq(text, 1, cut))
        rest == SubSeq(text, cut + 1, Len(text))
    IN IF cut = 0
       THEN [piece |-> <<>>, buffer |-> text]
       ELSE IF piece # <<>>
            THEN [piece |-> piece, buffer |-> rest]
            ELSE NextYield(rest, cfg)

SharedInit ==
    /\ sh_buffer = <<>>
    /\ sh_tokens = [s \in ShSessions |-> <<>>]
    /\ sh_pc = [s \in ShSessions |-> "idle"]
    /\ sh_out = [s \in ShSessions |-> <<>>]

\* the generator runs on with buffer text until it yields or waits
ShRun(s, text) ==
    LET r == NextYield(text, MainConfig)
    IN /\ sh_buffer' = r.buffer
       /\ IF r.piece # <<>>
          THEN /\ sh_out' = [sh_out EXCEPT ![s] = Append(@, r.piece)]
               /\ sh_pc' = [sh_pc EXCEPT ![s] = "yielded"]
          ELSE /\ sh_pc' = [sh_pc EXCEPT ![s] = "feed"]
               /\ UNCHANGED sh_out

\* _stream_response(session_id, ...) starts iterating process_stream:
\* self.reset(), then the first token is awaited
ShStart(s) ==
    /\ sh_pc[s] = "idle"
    /\ sh_buffer' = <<>>
    /\ sh_tokens' = [sh_tokens EXCEPT ![s] = ShStream(s, MaxShTokens)]
    /\ sh_pc' = [sh_pc EXCEPT ![s] = "feed"]
    /\ UNCHANGED sh_out
    /\ UNCHANGED nonShared

\* the LLM stream of session s yields a token: self.buffer += token, then
\* the loop
ShToken(s) ==
    /\ sh_pc[s] = "feed"
    /\ sh_tokens[s] # <<>>
    /\ sh_tokens' = [sh_tokens EXCEPT ![s] = Tail(@)]
    /\ ShRun(s, sh_buffer \o Head(sh_tokens[s]))
    /\ UNCHANGED nonShared

\* the sentence has been synthesized and the generator is resumed
ShResume(s) ==
    /\ sh_pc[s] = "yielded"
    /\ ShRun(s, sh_buffer)
    /\ UNCHANGED sh_tokens
    /\ UNCHANGED nonShared

\* the LLM stream of session s ends: the remaining buffer is yielded
ShEnd(s) ==
    /\ sh_pc[s] = "feed"
    /\ sh_tokens[s] = <<>>
    /\ LET remaining == Strip(sh_buffer)
       IN sh_out' = IF remaining # <<>>
                    THEN [sh_out EXCEPT ![s] = Append(@, remaining)]
                    ELSE sh_out
    /\ sh_buffer' = <<>>
    /\ sh_pc' = [sh_pc EXCEPT ![s] = "done"]
    /\ UNCHANGED sh_tokens
    /\ UNCHANGED nonShared

SharedNext ==
    \/ \E s \in ShSessions : ShStart(s)
    \/ \E s \in ShSessions : ShToken(s)
    \/ \E s \in ShSessions : ShResume(s)
    \/ \E s \in ShSessions : ShEnd(s)

(***************************************************************************)
(* Specifications                                                          *)
(***************************************************************************)
Init ==
    /\ QueueInit
    /\ TrackerInit
    /\ TrackInit
    /\ SessionInit
    /\ MainInit
    /\ PipelineInit
    /\ AggregatorInit
    /\ ManagerInit
    /\ RegistryInit
    /\ ConverterInit
    /\ LockInit
    /\ SharedInit

SpecQueue == Init /\ [][QueueNext]_vars

SpecTracker == Init /\ [][TrackerNext]_vars

SpecTrack == Init /\ [][TrackNext]_vars

SpecSession == Init /\ [][SessionNext]_vars

SpecMain == Init /\ [][MainNext]_vars

SpecPipeline == Init /\ [][PipelineNext]_vars

SpecAggregator == Init /\ [][AggregatorNext]_vars

SpecManager == Init /\ [][ManagerNext]_vars

SpecManagerAudio == Init /\ [][ManagerAudioNext]_vars

SpecRegistry == Init /\ [][RegistryNext]_vars

SpecSignalling == Init /\ [][SignallingNext]_vars

SpecConverter == Init /\ [][ConverterNext]_vars

SpecLocks == Init /\ [][LockNext]_vars

SpecShared == Init /\ [][SharedNext]_vars

\* the event loop resumes a recv() whose wait is over
SpecTrackFair ==
    Init /\ [][TrackNext]_vars /\ WF_vars(RecvWake) /\ WF_vars(RecvPaceDone)

(***************************************************************************)
(* Properties of AudioChunkQueue                                           *)
(***************************************************************************)
QueueIds == SeqToSet(queue)

\* chunks whose put call has finished or has not been suspended
IssuedDone ==
    SelectSeq(issued,
              LAMBDA c : \A t \in Putters :
                            ~(putPc[t] = "wait" /\ putChunk[t] = c))

\* C3: after any interleaving of put, get and clear by any number of tasks
\* the queue never holds more than max_size entries.
C3_QueueBounded == Len(queue) <= max_size

\* an append found the queue already full, and the queue is full
C3_Witness ==
    /\ Len(queue) = max_size
    /\ total_enqueued > total_dequeued + clearedCount + Len(queue)

\* C4: put does not silently overwrite: every chunk whose put returned True
\* is still queued, was returned by a get, or was removed by clear.
C4_NoSilentOverwrite ==
    \A c \in accepted :
        c \in QueueIds \cup SeqToSet(returned) \cup clearedIds

\* C5: puts that never exceed capacity (none found the queue full, none
\* overlapped, no clear): get returns exactly those chunks, each once, in
\* the order the puts were issued, and None once the queue is empty.
C5_Fifo ==
    /\ (~putOverlap /\ backpressure_events = 0 /\ clearedCount = 0)
           => IssuedDone = returned \o queue
    /\ (getResult = None) <=> getWasEmpty

\* three sequential puts were drained in order and a further get gave None
C5_Witness ==
    /\ ~putOverlap /\ backpressure_events = 0 /\ clearedCount = 0
    /\ Len(returned) >= 3
    /\ getResult = None
    /\ getWasEmpty

\* C6: a put that found the queue full and saw no get or clear before its
\* timeout returns False, adds exactly 1 to total_dropped and leaves the
\* queue contents and total_enqueued unchanged.
C6_TimeoutDrops ==
    [][\A t \in Putters :
          (putPc[t] = "wait" /\ putSawFull[t] /\ ~putDisturbed[t]
             /\ putPc'[t] = "idle")
          => /\ putResult'[t] = "false"
             /\ total_dropped' = total_dropped + 1
             /\ queue' = queue
             /\ total_enqueued' = total_enqueued]_vars

\* a put was dropped on a full, undisturbed queue
C6_Witness ==
    \E t \in Putters :
        /\ putPc[t] = "idle"
        /\ putResult[t] = "false"
        /\ putSawFull[t]
        /\ ~putDisturbed[t]
        /\ Len(queue) = max_size
        /\ total_dropped >= 1

(***************************************************************************)
(* Properties of ChunkTracker                                              *)
(***************************************************************************)
\* C10: after any sequence of mark_sent, mark_acknowledged and
\* cleanup_old_chunks the tracker never holds more than max_tracked_chunks
\* records, whatever their acknowledged state.
C10_TrackerBounded == Cardinality(Tracked) <= max_tracked_chunks

(***************************************************************************)
(* Properties of TTSAudioTrack                                             *)
(***************************************************************************)
\* C7: a flush() called while recv() is blocked on the empty queue makes
\* that recv() return, and the frame it returns is bytes_per_frame zero bytes.
C7_FlushWakesRecv ==
    /\ [](lastRecvFlushed => lastFrame = SilenceFrame)
    /\ (flushedBlocked ~> lastRecvFlushed)

\* a recv() that was blocked and flushed has returned
C7_Witness ==
    /\ lastRecvFlushed
    /\ recvPc = "idle"
    /\ Len(lastFrame) = bytes_per_frame

(***************************************************************************)
(* Properties of the interrupt protocol                                    *)
(***************************************************************************)
\* C1: no PCM chunk the streaming task pushes after handle_interrupt set
\* the stop flag is ever returned by recv() of the session's current track.
C1_NoLateChunkPlayed == played \cap latePushed = {}

\* C2: every handled interrupt results in exactly one voice_interrupted
\* message, also when the on_interruption callback fails.
C2_OneMessagePerInterrupt ==
    /\ voice_interrupted = interruptsHandled
    /\ intPc = "idle" => voice_interrupted = total_interruptions

(***************************************************************************)
(* Properties of the response pipeline                                     *)
(***************************************************************************)
\* C8: at most one response task (process_audio of the demo server,
\* process of the pipeline) runs for the session at any time; one that runs
\* when a new one starts has been cancelled first.
C8_OneResponseTask ==
    /\ Cardinality({t \in TaskIds : TaskActive(t) /\ ~tCancel[t]}) <= 1
    /\ Cardinality({k \in Runs : PipelineRunning(k)}) <= 1

\* C9: for a single valid utterance that is not interrupted the client gets
\* transcript, then agent_response, then one or more llm_sentence, then
\* streaming_complete.
C9_EventOrder ==
    (nextTask = 2 /\ tPc[1] = "done" /\ mainInterrupts = 0)
        => \E n \in 1..Len(events) :
              events = <<"transcript", "agent_response">>
                         \o [i \in 1..n |-> "llm_sentence"]
                         \o <<"streaming_complete">>

\* C11 as stated: the first mark_acknowledged(s) after mark_sent(s) adds
\* exactly 1 to the acknowledged count, and a repeated one changes nothing
\* of the tracker.
C11_AckOnce ==
    [][\A s \in ChunkIdx :
          trackerOp' = <<"mark_acknowledged", s>>
          => /\ ackSeen[s] = "sent" => total_acked' = total_acked + 1
             /\ ackSeen[s] = "acked" => UNCHANGED trackerState]_vars

\* C11 amended: for a chunk that is still tracked (no mark_sent at capacity
\* has evicted it) the first mark_acknowledged(s) after mark_sent(s) adds
\* exactly 1 to the acknowledged count; every repeated mark_acknowledged(s)
\* changes nothing of the tracker.
C11_AckOnceTracked ==
    [][\A s \in ChunkIdx :
          trackerOp' = <<"mark_acknowledged", s>>
          => /\ (ackSeen[s] = "sent" /\ s \in Tracked)
                   => total_acked' = total_acked + 1
             /\ ackSeen[s] = "acked" => UNCHANGED trackerState]_vars

\* a tracked chunk was acknowledged once and then once more
C11_Witness ==
    \E s \in ChunkIdx :
        /\ trackerOp = <<"mark_acknowledged", s>>
        /\ ackSeen[s] = "acked"
        /\ s \in Tracked
        /\ sent_chunks[s].acked
        /\ sent_chunks[s].ack_time < now
        /\ total_acked = 1

\* C12 as stated: a chunk that was mark_sent and has stayed unacknowledged
\* for longer than ack_timeout is listed by get_missing_chunks(); once a
\* mark_acknowledged has succeeded for it, it is never listed again.
C12_MissingListed ==
    \A s \in ChunkIdx :
        /\ (ackSeen[s] = "sent" /\ now - sentAt[s] > ack_timeout)
              => s \in get_missing_chunks
        /\ everAcked[s] => s \notin get_missing_chunks

\* C12 amended: a chunk that was mark_sent, is still tracked and has stayed
\* unacknowledged for longer than ack_timeout is listed by
\* get_missing_chunks(); after a mark_acknowledged for it, it is not listed
\* again unless it is mark_sent again.
C12_MissingListedTracked ==
    \A s \in ChunkIdx :
        /\ (ackSeen[s] = "sent" /\ s \in Tracked
               /\ now - sentAt[s] > ack_timeout)
              => s \in get_missing_chunks
        /\ ackSeen[s] = "acked" => s \notin get_missing_chunks

\* one chunk is overdue and listed while an acknowledged one of the same
\* age is not
C12_Witness ==
    \E s, a \in ChunkIdx :
        /\ ackSeen[s] = "sent"
        /\ now - sentAt[s] > ack_timeout
        /\ s \in get_missing_chunks
        /\ ackSeen[a] = "acked"
        /\ a \in Tracked
        /\ now - sent_chunks[a].sent_time > ack_timeout
        /\ a \notin get_missing_chunks

\* C13: every unacknowledged chunk that mark_sent evicts at capacity is
\* counted as missing: the missing count of get_metrics() includes the
\* evicted chunks (total_missing counts the evictions).
C13_EvictedCounted == metrics_total_missing >= total_missing

\* C14: with the default configuration the tokens "I", " think", ".",
\* " Therefore", " I", " am", "." make process_stream yield exactly the two
\* sentences "I think." and "Therefore I am.", in that order
C14_TwoSentences ==
    (sa_pc = "done" /\ sa_config = DefaultConfig /\ sa_input = DocTokens)
    => sa_yielded = <<DocTokens[1] \o DocTokens[2] \o DocTokens[3],
                      Tail(DocTokens[4]) \o DocTokens[5] \o DocTokens[6]
                          \o DocTokens[7]>>

\* the last character at or before position c of text that is not whitespace
LastNonSpace(text, c) ==
    CHOOSE j \in 1..c :
        /\ text[j] # " "
        /\ \A k \in (j + 1)..c : text[k] = " "

\* C15: for any min_chars and any split of the text into tokens, the
\* aggregator never cuts the text directly after a known abbreviation
\* followed by a dot
C15_NoBoundaryAfterAbbreviation ==
    \A c \in sa_cuts :
        ~EndsWithAbbreviation(sa_text, LastNonSpace(sa_text, c))

\* C16: handle_interrupt takes its steps in order, each after the one
\* before has finished: the track is flushed and replaced (and the
\* transcoding process terminated) only once the stop flag is set and the
\* session's active TTS task has been cancelled and has ended; and
\* voice_interrupted is sent only after the flush
C16_InterruptOrder ==
    [][/\ trackGen' # trackGen => (streaming_flag' /\ TaskDone)
       /\ voice_interrupted' # voice_interrupted
              => (streaming_flag /\ intPc = "send")]_vars

(***************************************************************************)
(* Properties of WebRTCManager                                             *)
(***************************************************************************)
\* C17: a session has at most one open peer connection at any time, for
\* every interleaving of concurrent offers and close calls
C17_OneOpenConnection == Cardinality(pcOpen) <= 1

\* C18: replace_audio_track leaves the session's peer connection and sender
\* entries as they are and registers a new track whose queue and byte
\* buffer are empty; and recv() of a track returns only audio that was
\* added to that same track, so nothing added to the old track comes out
\* of the new one
C18_ReplaceFresh ==
    [][/\ wOp' = "replace_audio_track" /\ replaces' # replaces
          => /\ pcs' = pcs
             /\ senders' = senders
             /\ tracks' # tracks
             /\ trackObj'[tracks'] = [queue |-> <<>>, buffer |-> {}]
       /\ \A t \in TrackIds : received'[t] \subseteq added'[t]]_vars

\* a replaced track held audio, the new track has taken audio since, and
\* recv() of the new track has returned some of it
C18_Witness ==
    /\ wOp # "none"
    /\ replaces > 0
    /\ tracks # None
    /\ \E old \in TrackIds :
          /\ old # tracks
          /\ added[old] # {}
          /\ received[old] # added[old]
    /\ received[tracks] # {}

\* C19: when wait_for_track_ready returns True the negotiation is complete
\* and a track is registered, so the push that follows at once is not
\* dropped for lack of a track
C19_ReadyMeansTrack == ~readyPushDropped /\ ~readyUnnegotiated

(***************************************************************************)
(* Properties of the error handling                                        *)
(***************************************************************************)
\* C20: when the transcription, generation or synthesis provider raises
\* while an utterance is processed, the failure is caught and an error
\* event is sent to the client of the session
C20_FailureReported ==
    [][failures' # failures => events' = Append(events, "error")]_vars

(***************************************************************************)
(* Properties of signalling, session registries and audio transport       *)
(***************************************************************************)
\* C21: streaming_complete is never sent to a session for which no WebRTC
\* offer/answer exchange has completed; a response that reaches speech
\* synthesis for such a session is answered with an error event
\* (webrtc_not_ready) instead.
C21_NoCompleteWithoutWebRTC ==
    [][/\ events' = Append(events, "streaming_complete") => main_webrtc
       /\ \A t \in TaskIds :
             (tPc[t] \in {"tts", "ttsf"} /\ ~main_webrtc /\ ~tCancel[t]
              /\ tPc'[t] # tPc[t])
             => events' = Append(events, "error")]_vars

C24_ConnectRetries ==
    \A s \in SessionIds :
       /\ attempts[s] <= 3
       /\ connected_sent[s] <= 1
       /\ connPc[s] = "send" => connected_sent[s] = 0
       /\ connPc[s] = "returned" => connected_sent[s] = 1
       /\ connPc[s] = "raised" => (attempts[s] = 3 /\ connected_sent[s] = 0)

C24_Witness ==
    \E s \in SessionIds : connPc[s] = "returned" /\ attempts[s] = 3

\* C25: when disconnect(session_id) has completed, the session id is present
\* in none of active_connections, session_data, user_sessions,
\* streaming_tasks, tts_streaming_tasks, tts_chunk_counts, ffmpeg_processes.
C25_DisconnectClearsAll ==
    [][\A s \in SessionIds :
          (discPc[s] # "done" /\ discPc'[s] = "done")
          => /\ s \notin active_connections'
             /\ ~session_data'[s].present
             /\ \A u \in Users : user_sessions'[u] # s
             /\ s \notin streaming_tasks'
             /\ s \notin tts_streaming_tasks
             /\ s \notin tts_chunk_counts'
             /\ s \notin ffmpeg_processes']_vars

\* C23: handle_interrupt always terminates having flushed the track and
\* notified the client, also when the cancelled TTS task was slow to stop:
\* every return of handle_interrupt comes from its send step, with one more
\* voice_interrupted sent and the track replaced during the call.
C23_InterruptCompletes ==
    [][(intPc # "idle" /\ intPc' = "idle")
       => (intPc = "send" /\ voice_interrupted' = voice_interrupted + 1)]_vars

\* C26: whenever mp3_to_pcm_stream finishes (end of output, failure of the
\* input stream, read failure, cancellation) the process it spawned has
\* exited and its input-feeding task has ended.
C26_NoProcessLeft ==
    convPc = "finished"
    => (process = "exited" /\ input_task \in {"done", "cancelled"})

C26_Witness ==
    /\ convPc = "finished"
    /\ finish = "cancelled"
    /\ killed
    /\ input_task = "cancelled"

\* C27: audio leaves the track in the order it entered: a payload that
\* starts to leave in a frame of recv() was handed to add_frame after every
\* payload that left before it (payload ids count the add_frame calls), the
\* bytes of a frame are in that order too, and every frame has exactly
\* bytes_per_frame bytes.
C27_TrackOrder ==
    [][/\ \A i \in played' \ played : \A j \in played : j < i
       /\ lastFrame' # lastFrame
          => /\ Len(lastFrame') = bytes_per_frame
             /\ \A k, l \in 1..Len(lastFrame') :
                   (k < l /\ lastFrame'[k] # 0 /\ lastFrame'[l] # 0)
                   => lastFrame'[k] <= lastFrame'[l]]_vars

\* C28: when remove_queue removes a session's queue, every remaining entry is
\* dropped and counted in total_dropped, every put waiting for space on the
\* queue is woken, and the session id no longer maps to a queue.
C28_RemoveQueueClears ==
    [][queues' # queues
       => /\ queue' = <<>>
          /\ total_dropped' = total_dropped + Len(queue)
          /\ clearedIds' = clearedIds \cup SeqToSet(queue)
          /\ \A t \in Putters : putPc[t] = "wait" => putWoken'[t]
          /\ QueueSession \notin queues']_vars

\* the queue was removed while it was full and a put was waiting for space:
\* the entries are counted as dropped and the put is woken
C28_Witness ==
    /\ QueueSession \notin queues
    /\ returned = <<>>
    /\ clearedCount = max_size
    /\ total_dropped = max_size
    /\ queue = <<>>
    /\ \E t \in Putters : putPc[t] = "wait" /\ putSawFull[t] /\ putWoken[t]

\* the buffer has no sentence boundary, is longer than max_wait_chars and
\* holds a soft break that ends at or after min_chars
SoftBreakDue ==
    /\ FindSentenceBoundary(sa_buffer, sa_config) = 0
    /\ Len(sa_buffer) > sa_config.max_wait_chars
    /\ \E i \in 1..Len(sa_buffer) :
          sa_buffer[i] \in soft_breaks /\ i >= sa_config.min_chars

\* C29: while the aggregator works on a token, a buffer with no sentence
\* boundary that is longer than max_wait_chars and holds a soft break ending
\* at or after min_chars is cut: the next step yields a chunk that starts the
\* buffer and ends with a soft break; so the aggregator never goes back to
\* waiting for tokens with such a buffer.
C29_SoftBreakYield ==
    [][(sa_pc = "scan" /\ SoftBreakDue)
       => /\ Len(sa_yielded') = Len(sa_yielded) + 1
          /\ LET chunk == sa_yielded'[Len(sa_yielded')]
                 text == LStrip(sa_buffer)
             IN /\ chunk = SubSeq(text, 1, Len(chunk))
                /\ chunk[Len(chunk)] \in soft_breaks
                /\ Len(sa_buffer') < Len(sa_buffer)
          /\ sa_pc' = "scan"]_vars

\* a stream was cut at a soft break: the text so far ends in a cut right
\* after a comma, and the chunk was yielded
C29_Witness ==
    /\ sa_pc = "scan"
    /\ sa_yielded # <<>>
    /\ sa_yielded[Len(sa_yielded)][Len(sa_yielded[Len(sa_yielded)])]
           \in soft_breaks
    /\ Len(sa_text) - Len(sa_buffer) \in sa_cuts

\* text is the pieces in order, with nothing but whitespace before, between
\* and after them
RECURSIVE Rebuilds(_, _)
Rebuilds(text, pieces) ==
    IF pieces = <<>>
    THEN LStrip(text) = <<>>
    ELSE LET t == LStrip(text)
             p == Head(pieces)
         IN /\ p # <<>>
            /\ Len(t) >= Len(p)
            /\ SubSeq(t, 1, Len(p)) = p
            /\ Rebuilds(SubSeq(t, Len(p) + 1, Len(t)), Tail(pieces))

\* C30: when process_stream has finished a token stream, the yielded
\* sentences, remainder included, are the concatenation of the tokens but
\* for the stripped whitespace between them, in order and with no character
\* lost or doubled, and the buffer is empty.
C30_NothingLost ==
    sa_pc = "done"
    => /\ Rebuilds(sa_text, sa_yielded)
       /\ sa_buffer = <<>>

\* a stream ended with several sentences yielded and whitespace stripped
\* between them
C30_Witness ==
    /\ sa_pc = "done"
    /\ Len(sa_yielded) >= 2
    /\ sa_cuts # {}
    /\ \E k \in 1..Len(sa_text) : sa_text[k] = " " /\ k \in sa_cuts

(***************************************************************************)
(* Properties of queues, locks, shared aggregators and session bookkeeping *)
(***************************************************************************)
\* C31: the track's queue never holds more than MAX_QUEUE_SIZE entries,
\* whatever the number of add_frame callers and however they interleave
\* with recv and flush
C31_TrackQueueBounded == Len(audio_queue) <= MAX_QUEUE_SIZE

\* the queue is full and every producer sleeps in the back-pressure loop
C31_Witness ==
    /\ Len(audio_queue) = MAX_QUEUE_SIZE
    /\ \A p \in Producers : prodPc[p] = "backoff"

\* C32: a task that holds the manager lock or a queue lock is never
\* suspended: it waits for no lock, event or timer until it has released it
C32_NoLockAcrossSuspension ==
    \A t \in LkTasks :
        (locks.mgr = t \/ locks.queue = t)
        => (lk_running = t /\ lk_wait[t] = "none")

\* remove_queue is inside clear() with both locks held while another task's
\* put is suspended waiting for space
C32_Witness ==
    \E t, u \in LkTasks :
        /\ locks.mgr = t
        /\ locks.queue = t
        /\ lk_pc[t] = "rq_clear"
        /\ lk_wait[u] = "event"
        /\ ~lk_woken[u]

\* C33: whenever space_available is cleared the queue is full; a put whose
\* wait is not yet resolved therefore sees a non-empty queue with the event
\* cleared, and every get that takes an entry and every clear that drops
\* entries resolves the wait of all puts waiting for space
C33_NoLostWakeup ==
    [][/\ ~space_available' => Len(queue') >= max_size
       /\ \A t \in Putters :
             (putPc'[t] = "wait" /\ ~putWoken'[t])
             => (~space_available' /\ queue' # <<>>)
       /\ (total_dequeued' # total_dequeued \/ clearedCount' # clearedCount)
          => \A t \in Putters : putPc[t] = "wait" => putWoken'[t]]_vars

\* a put that found the queue full has been woken by a get
C33_Witness ==
    /\ \E t \in Putters : putPc[t] = "wait" /\ putSawFull[t] /\ putWoken[t]
    /\ total_dequeued = 1
    /\ clearedCount = 0
    /\ total_dropped = 0
    /\ space_available

\* C34: total_enqueued equals total_dequeued plus the entries removed by
\* clear plus the entries in the queue
C34_CountersConsistent ==
    total_enqueued = total_dequeued + clearedCount + Len(queue)

\* letters of session s in a sequence of sentences
RECURSIVE OwnLetters(_, _)
OwnLetters(sentences, s) ==
    IF sentences = <<>>
    THEN 0
    ELSE Len(SelectSeq(Head(sentences), LAMBDA c : c = ShLetter(s)))
         + OwnLetters(Tail(sentences), s)

\* C35: with two sessions responding at once through one aggregator, every
\* sentence handed to a session's TTS holds that session's tokens only, and
\* when its stream is over none of its tokens is missing
C35_SessionsIsolated ==
    \A s \in ShSessions :
        /\ \A k \in 1..Len(sh_out[s]) : \A i \in 1..Len(sh_out[s][k]) :
              sh_out[s][k][i] \in ShLetters => sh_out[s][k][i] = ShLetter(s)
        /\ sh_pc[s] = "done"
           => OwnLetters(sh_out[s], s)
                  = OwnLetters(ShStream(s, MaxShTokens), s)

\* reset(), add_token for each token in turn, flush(): the sentences returned
RECURSIVE CallbackStyle(_, _, _)
CallbackStyle(tokens, text, cfg) ==
    IF tokens = <<>>
    THEN IF AggFlush(text) # <<>> THEN <<AggFlush(text)>> ELSE <<>>
    ELSE LET r == add_token(text, Head(tokens), cfg)
         IN r.sentences \o CallbackStyle(Tail(tokens), r.buffer, cfg)

\* C36: process_stream yields, for every token sequence, the sentences that
\* reset(), add_token for each token in turn and flush() return, in the same
\* order
C36_InterfacesAgree ==
    sa_pc = "done" => sa_yielded = CallbackStyle(sa_input, <<>>, sa_config)

\* a stream of two tokens that gave three sentences
C36_Witness ==
    /\ sa_pc = "done"
    /\ Len(sa_input) = 2
    /\ Len(sa_yielded) = 3

\* C37: a _stream_tts_to_webrtc call that starts after an interrupt has been
\* handled, with no interrupt in progress, does not find the stop flag set:
\* its read_output loop goes on to read and push the audio
C37_StreamsAfterInterrupt ==
    [][(taskPc # "run" /\ taskPc' = "run"
           /\ interruptsHandled > 0 /\ intPc = "idle")
       => (~streaming_flag' /\ roPc' = "read")]_vars

\* C38: for every user with at least one active session, get_user_session
\* returns the id of an active session of that user
C38_UserSessionActive ==
    \A u \in Users :
        (\E s \in active_connections :
            session_data[s].present /\ session_data[s].user_id = u)
        => /\ user_sessions[u] # None
           /\ user_sessions[u] \in active_connections
           /\ session_data[user_sessions[u]].user_id = u

\* C39: a recv() that cuts its frame after a flush() returns no byte of a
\* payload whose add_frame call began before that flush, also when the
\* producer was in its backpressure sleep when the flush ran.
C39_NoStaleFrameAfterFlush ==
    [][recvPc # "pace" => \A i \in played' \ played : i >= flushMark]_vars

\* C40: a connect that raised after its last attempt to send the connected
\* message has left its session id in none of active_connections,
\* session_data and user_sessions
C40_FailedConnectNoTrace ==
    \A s \in SessionIds :
        connPc[s] = "raised"
        => /\ s \notin active_connections
           /\ ~session_data[s].present
           /\ \A u \in Users : user_sessions[u] # s

====
